---------------------------- MODULE Spec2Model ----------------------------
(***************************************************************************)
(* A model of PQM (physical quantities and measures), src/src/pqm.mjs:     *)
(* the Quantity class and its arithmetic, the unit-string parser, the      *)
(* greedy decomposition of Quantity.prototype.with, and the unit registry  *)
(* with define().  The older quantity() of src/src/pqm.js, which shares    *)
(* the registry objects with its callers, is modelled next to it.          *)
(*                                                                         *)
(* JavaScript numbers are modelled as exact rationals <<n, d>> with d > 0  *)
(* and gcd(n, d) = 1; floating-point rounding, NaN and the infinities are  *)
(* not modelled, and the actions never divide by zero.  JavaScript strings *)
(* are sequences of one-character strings, so that the parser's character  *)
(* loop, split, trim and parseInt are computed as the code computes them.  *)
(***************************************************************************)
EXTENDS Integers, Sequences, FiniteSets, TLC

----------------------------------------------------------------------------
(* Numbers *)

Abs(n) == IF n < 0 THEN -n ELSE n

RECURSIVE GCD(_, _)
GCD(a, b) == IF b = 0 THEN a ELSE GCD(b, a % b)

\* The number n/d in lowest terms.
Num(n, d) ==
  LET g == GCD(Abs(n), Abs(d))
      s == IF d < 0 THEN -1 ELSE 1
  IN  <<(s * n) \div g, (s * d) \div g>>

Whole(k) == <<k, 1>>
Zero == Whole(0)
One == Whole(1)

\* NaN, as parseInt returns it; no arithmetic is done on it.
NaN == <<0, 0>>

Plus(a, b) == Num(a[1] * b[2] + b[1] * a[2], a[2] * b[2])
Minus(a, b) == Num(a[1] * b[2] - b[1] * a[2], a[2] * b[2])
Times(a, b) == Num(a[1] * b[1], a[2] * b[2])
Over(a, b) == Num(a[1] * b[2], a[2] * b[1])
Neg(a) == <<-a[1], a[2]>>
Less(a, b) == a[1] * b[2] < b[1] * a[2]
MathAbs(a) == <<Abs(a[1]), a[2]>>
isInteger(a) == a[2] = 1

RECURSIVE IntPow(_, _)
IntPow(k, n) == IF n = 0 THEN 1 ELSE k * IntPow(k, n - 1)

\* Math.pow(a, n) for an integer n (a # 0 when n < 0).
MathPow(a, n) ==
  IF n >= 0 THEN <<IntPow(a[1], n), IntPow(a[2], n)>>
  ELSE Num(IntPow(a[2], -n), IntPow(a[1], -n))

\* The exact n-th root of a natural number, when it has one.
HasIntRoot(k, n) == \E r \in 0..k : IntPow(r, n) = k
IntRoot(k, n) == CHOOSE r \in 0..k : IntPow(r, n) = k

\* Math.pow(a, 1/n) for a >= 0 whose numerator and denominator are perfect
\* n-th powers.
HasRoot(a, n) == a[1] >= 0 /\ HasIntRoot(a[1], n) /\ HasIntRoot(a[2], n)
MathRoot(a, n) == <<IntRoot(a[1], n), IntRoot(a[2], n)>>

----------------------------------------------------------------------------
(* JavaScript values and outcomes *)

\* A plain number passed where a Quantity may be passed, and a missing
\* argument.  A Quantity is a record with the fields magnitude, dimensions
\* and offset.
Number(r) == [num |-> r]
undefined == [undef |-> TRUE]
typeof(v) ==
  IF "num" \in DOMAIN v THEN "number"
  ELSE IF "undef" \in DOMAIN v THEN "undefined"
  ELSE "object"

\* A call either returns a value or throws.
Return(v) == [ok |-> TRUE, val |-> v]
Throw(msg) == [ok |-> FALSE, err |-> msg]

----------------------------------------------------------------------------
(* The Quantity class *)

dimensionTypes ==
  <<"mass", "length", "time", "temperature", "current", "substance",
    "luminosity", "information", "rotation">>

numDimensionTypes == 9

DimIdx == 1..numDimensionTypes

ZeroDimensions == [ii \in DimIdx |-> Zero]

\* new Quantity(magnitude, dimensions, offset) with `dimensions` an array.
Quantity(magnitude, dimensions, offset) ==
  [magnitude |-> magnitude, dimensions |-> dimensions, offset |-> offset]

\* new Quantity(magnitude, {dim: power, ...}, offset): the object form used by
\* the unit table; `dims` is a record of integers keyed by dimension name.
QuantityOf(magnitude, dims, offset) ==
  Quantity(magnitude,
           [ii \in DimIdx |->
              IF dimensionTypes[ii] \in DOMAIN dims
                THEN Whole(dims[dimensionTypes[ii]])
                ELSE Zero],
           offset)

\* new Quantity(magnitude)
Scalar(magnitude) == Quantity(magnitude, ZeroDimensions, Zero)

\* The coercion at the head of every binary operation.
Coerce(other) ==
  IF typeof(other) = "number" THEN Scalar(other.num) ELSE other

RECURSIVE SumAbs(_, _)
SumAbs(dims, ii) ==
  IF ii > numDimensionTypes THEN Zero
  ELSE Plus(MathAbs(dims[ii]), SumAbs(dims, ii + 1))

dimensionality(q) == SumAbs(q.dimensions, 1)

copyDimensions(q) == [ii \in DimIdx |-> q.dimensions[ii]]

copy(q) == Quantity(q.magnitude, copyDimensions(q), q.offset)

sameDimensions(q, other) ==
  LET o == Coerce(other)
  IN  \A ii \in DimIdx : q.dimensions[ii] = o.dimensions[ii]

\* add with the offset of the receiver dropped from the sum.
addAsDelta(q, other) ==
  LET o == Coerce(other)
  IN  IF ~sameDimensions(q, o)
        THEN Throw("Cannot add units that are not alike")
      ELSE IF o.offset # Zero
        THEN Throw("A unit with a zero offset cannot be added to another unit")
      ELSE Return(Quantity(Plus(q.magnitude, o.magnitude),
                           copyDimensions(q), Zero))

add(q, other) ==
  LET o == Coerce(other)
  IN  IF ~sameDimensions(q, o)
        THEN Throw("Cannot add units that are not alike")
      ELSE IF o.offset # Zero
        THEN Throw("A unit with a zero offset cannot be added to another unit")
      ELSE Return(Quantity(Plus(q.magnitude, o.magnitude),
                           copyDimensions(q), q.offset))

\* sub without the statement newMagnitude -= newOffset.
subKeepingOffsetInMagnitude(q, other) ==
  LET o == Coerce(other)
      newMagnitude == Minus(Plus(q.magnitude, q.offset),
                            Plus(o.magnitude, o.offset))
  IN  IF ~sameDimensions(q, o)
        THEN Throw("Cannot subtract units that are not alike")
      ELSE IF o.offset # Zero
        THEN Return(Quantity(newMagnitude, copyDimensions(q), Zero))
      ELSE Return(Quantity(newMagnitude, copyDimensions(q), q.offset))

\* sub without the statement newOffset = this.offset.
subAsDelta(q, other) ==
  LET o == Coerce(other)
      newMagnitude == Minus(Plus(q.magnitude, q.offset),
                            Plus(o.magnitude, o.offset))
  IN  IF ~sameDimensions(q, o)
        THEN Throw("Cannot subtract units that are not alike")
      ELSE IF o.offset # Zero
        THEN Return(Quantity(newMagnitude, copyDimensions(q), Zero))
      ELSE Return(Quantity(Minus(newMagnitude, q.offset),
                           copyDimensions(q), Zero))

sub(q, other) ==
  LET o == Coerce(other)
      newMagnitude == Minus(Plus(q.magnitude, q.offset),
                            Plus(o.magnitude, o.offset))
  IN  IF ~sameDimensions(q, o)
        THEN Throw("Cannot subtract units that are not alike")
      ELSE IF o.offset # Zero
        THEN Return(Quantity(newMagnitude, copyDimensions(q), Zero))
      ELSE Return(Quantity(Minus(newMagnitude, q.offset),
                           copyDimensions(q), q.offset))

\* mul with the offset test on the argument only.
mulTestingOtherOnly(q, other) ==
  LET o == Coerce(other)
  IN  IF o.offset # Zero
        THEN Throw("Cannot multiply dimensions with an offset")
      ELSE Return(Quantity(Times(q.magnitude, o.magnitude),
                           [ii \in DimIdx |->
                              Plus(q.dimensions[ii], o.dimensions[ii])],
                           Zero))

mul(q, other) ==
  LET o == Coerce(other)
  IN  IF q.offset # Zero \/ o.offset # Zero
        THEN Throw("Cannot multiply dimensions with an offset")
      ELSE Return(Quantity(Times(q.magnitude, o.magnitude),
                           [ii \in DimIdx |->
                              Plus(q.dimensions[ii], o.dimensions[ii])],
                           Zero))

\* inv without the test of this.offset.
invAllowingOffset(q) ==
  Return(Quantity(Over(One, q.magnitude),
                  [ii \in DimIdx |-> Neg(q.dimensions[ii])],
                  Zero))

\* this.magnitude # 0: 1.0 / 0 is Infinity, which is not modelled.
inv(q) ==
  IF q.offset # Zero
    THEN Throw("Cannot invert dimensions with an offset")
  ELSE Return(Quantity(Over(One, q.magnitude),
                       [ii \in DimIdx |-> Neg(q.dimensions[ii])],
                       Zero))

div(q, other) ==
  LET o == Coerce(other)
  IN  IF q.offset # Zero \/ o.offset # Zero
        THEN Throw("Cannot divide dimensions with an offset")
      ELSE LET inverseValue == inv(o)
           IN  IF inverseValue.ok THEN mul(q, inverseValue.val)
               ELSE inverseValue

\* pow without the n == 0 case: the general branch also serves a zero power.
powWithoutZeroCase(q, n) ==
  IF ~isInteger(n)
    THEN Throw("Quantities don't support dimensions with fractional powers")
  ELSE IF q.offset # Zero /\ Less(One, n)
    THEN Throw("Cannot raise units with zero offsets to powers > 1")
  ELSE Return(Quantity(MathPow(q.magnitude, n[1]),
                       [ii \in DimIdx |-> Times(q.dimensions[ii], n)],
                       q.offset))

\* n is a number (a rational); this.magnitude # 0 when n < 0.
pow(q, n) ==
  IF ~isInteger(n)
    THEN Throw("Quantities don't support dimensions with fractional powers")
  ELSE IF q.offset # Zero /\ Less(One, n)
    THEN Throw("Cannot raise units with zero offsets to powers > 1")
  ELSE IF n = Zero THEN Return(Scalar(One))
  ELSE Return(Quantity(MathPow(q.magnitude, n[1]),
                       [ii \in DimIdx |-> Times(q.dimensions[ii], n)],
                       q.offset))

\* root without the test of this.offset.
rootAllowingOffset(q, n) ==
  IF ~isInteger(n) \/ Less(n, One)
    THEN Throw("Root may only be a positive integer greater than or equal to 1")
  ELSE IF Less(q.magnitude, Zero)
    THEN Throw("Root function not supported for magnitudes with negative magnitudes")
  ELSE Return(Quantity(MathRoot(q.magnitude, n[1]),
                       [ii \in DimIdx |-> Over(q.dimensions[ii], n)],
                       q.offset))

\* root without the division of the exponents.
rootOfMagnitudeOnly(q, n) ==
  IF ~isInteger(n) \/ Less(n, One)
    THEN Throw("Root may only be a positive integer greater than or equal to 1")
  ELSE IF q.offset # Zero /\ Less(One, n)
    THEN Throw("Cannot take root of units with zero offset")
  ELSE IF Less(q.magnitude, Zero)
    THEN Throw("Root function not supported for magnitudes with negative magnitudes")
  ELSE Return(Quantity(MathRoot(q.magnitude, n[1]), copyDimensions(q), q.offset))

\* n is a number; when the call gets as far as Math.pow, this.magnitude has an
\* exact n-th root.
root(q, n) ==
  IF ~isInteger(n) \/ Less(n, One)
    THEN Throw("Root may only be a positive integer greater than or equal to 1")
  ELSE IF q.offset # Zero /\ Less(One, n)
    THEN Throw("Cannot take root of units with zero offset")
  ELSE IF Less(q.magnitude, Zero)
    THEN Throw("Root function not supported for magnitudes with negative magnitudes")
  ELSE IF ~isInteger(n)
    THEN Throw("Root operation would result in a fractional dimensional power")
  ELSE Return(Quantity(MathRoot(q.magnitude, n[1]),
                       [ii \in DimIdx |-> Over(q.dimensions[ii], n)],
                       q.offset))

\* compare with the two tests made with <= and >=.
compareNotStrict(q, other, tolerance) ==
  LET o == Coerce(other)
      tol == IF typeof(tolerance) = "undefined" THEN Number(Zero)
             ELSE tolerance
      thisMag == Plus(q.magnitude, q.offset)
      otherMag == Plus(o.magnitude, o.offset)
      diff == Minus(otherMag, thisMag)
      result(absoluteTolerance) ==
        IF ~Less(Neg(absoluteTolerance), diff) THEN Return(1)
        ELSE IF ~Less(diff, absoluteTolerance) THEN Return(-1)
        ELSE Return(0)
  IN  IF ~sameDimensions(q, o)
        THEN Throw("Cannot compare quantities with unlike units")
      ELSE IF typeof(tol) = "object"
        THEN IF ~sameDimensions(q, tol)
               THEN Throw("tolerance dimensions are not compatible with this quantity")
             ELSE IF tol.offset # Zero
               THEN Throw("Absolute tolerance in units with a zero offset is not allowed")
             ELSE result(tol.magnitude)
      ELSE IF q.offset # Zero /\ tol.num # Zero
        THEN Throw("Fractional tolerances not allowed for quantities with a zero offset")
      ELSE result(Times(q.magnitude, tol.num))

\* compare without the test of a fractional tolerance on a receiver with an
\* offset.
compareAllowingFraction(q, other, tolerance) ==
  LET o == Coerce(other)
      tol == IF typeof(tolerance) = "undefined" THEN Number(Zero)
             ELSE tolerance
      thisMag == Plus(q.magnitude, q.offset)
      otherMag == Plus(o.magnitude, o.offset)
      diff == Minus(otherMag, thisMag)
      result(absoluteTolerance) ==
        IF Less(diff, Neg(absoluteTolerance)) THEN Return(1)
        ELSE IF Less(absoluteTolerance, diff) THEN Return(-1)
        ELSE Return(0)
  IN  IF ~sameDimensions(q, o)
        THEN Throw("Cannot compare quantities with unlike units")
      ELSE IF typeof(tol) = "object"
        THEN IF ~sameDimensions(q, tol)
               THEN Throw("tolerance dimensions are not compatible with this quantity")
             ELSE IF tol.offset # Zero
               THEN Throw("Absolute tolerance in units with a zero offset is not allowed")
             ELSE result(tol.magnitude)
      ELSE result(Times(q.magnitude, tol.num))

compare(q, other, tolerance) ==
  LET o == Coerce(other)
      tol == IF typeof(tolerance) = "undefined" THEN Number(Zero)
             ELSE tolerance
      thisMag == Plus(q.magnitude, q.offset)
      otherMag == Plus(o.magnitude, o.offset)
      diff == Minus(otherMag, thisMag)
      result(absoluteTolerance) ==
        IF Less(diff, Neg(absoluteTolerance)) THEN Return(1)
        ELSE IF Less(absoluteTolerance, diff) THEN Return(-1)
        ELSE Return(0)
  IN  IF ~sameDimensions(q, o)
        THEN Throw("Cannot compare quantities with unlike units")
      ELSE IF typeof(tol) = "object"
        THEN IF ~sameDimensions(q, tol)
               THEN Throw("tolerance dimensions are not compatible with this quantity")
             ELSE IF tol.offset # Zero
               THEN Throw("Absolute tolerance in units with a zero offset is not allowed")
             ELSE result(tol.magnitude)
      ELSE IF q.offset # Zero /\ tol.num # Zero
        THEN Throw("Fractional tolerances not allowed for quantities with a zero offset")
      ELSE result(Times(q.magnitude, tol.num))

\* eq, lt, lte, gt, gte: a test of the number compare returns, or the
\* exception compare throws.
eqOf(c) == IF c.ok THEN Return(c.val = 0) ELSE c
ltOf(c) == IF c.ok THEN Return(c.val < 0) ELSE c
lteOf(c) == IF c.ok THEN Return(c.val <= 0) ELSE c
gtOf(c) == IF c.ok THEN Return(c.val > 0) ELSE c
gteOf(c) == IF c.ok THEN Return(c.val >= 0) ELSE c
eq(q, other, tolerance) == eqOf(compare(q, other, tolerance))
lt(q, other, tolerance) == ltOf(compare(q, other, tolerance))
lte(q, other, tolerance) == lteOf(compare(q, other, tolerance))
gt(q, other, tolerance) == gtOf(compare(q, other, tolerance))
gte(q, other, tolerance) == gteOf(compare(q, other, tolerance))


----------------------------------------------------------------------------
(* The unit table and the prefixes.  The model keeps the entries below of  *)
(* the table of pqm.mjs, with the table's scales, dimensions and offsets.  *)

BuiltinUnits ==
     "1"      :> Scalar(One)
  @@ "g"      :> QuantityOf(Num(1, 1000), [mass |-> 1], Zero)
  @@ "m"      :> QuantityOf(One, [length |-> 1], Zero)
  @@ "s"      :> QuantityOf(One, [time |-> 1], Zero)
  @@ "min"    :> QuantityOf(Whole(60), [time |-> 1], Zero)
  @@ "K"      :> QuantityOf(One, [temperature |-> 1], Zero)
  @@ "deltaC" :> QuantityOf(One, [temperature |-> 1], Zero)
  @@ "degC"   :> QuantityOf(One, [temperature |-> 1], Num(27315, 100))
  @@ "Reau"   :> QuantityOf(Num(125, 100), [temperature |-> 1], Num(27315, 100))
  @@ "deltaReau" :> QuantityOf(Num(125, 100), [temperature |-> 1], Zero)
  @@ "Pa"     :> QuantityOf(One, [mass |-> 1, length |-> -1, time |-> -2], Zero)
  @@ "Ba"     :> QuantityOf(Num(1, 10), [mass |-> 1, length |-> -1, time |-> -2], Zero)
  @@ "Pa-g"   :> QuantityOf(One, [mass |-> 1, length |-> -1, time |-> -2],
                            Whole(101325))
  @@ "N"      :> QuantityOf(One, [mass |-> 1, length |-> 1, time |-> -2], Zero)
  @@ "dyn"    :> QuantityOf(Num(1, 100000), [mass |-> 1, length |-> 1, time |-> -2], Zero)
  @@ "J"      :> QuantityOf(One, [mass |-> 1, length |-> 2, time |-> -2], Zero)
  @@ "erg"    :> QuantityOf(Num(1, 10000000), [mass |-> 1, length |-> 2, time |-> -2], Zero)
  @@ "RSI"    :> QuantityOf(One, [mass |-> -1, time |-> 3, temperature |-> 1], Zero)
  @@ "W"      :> QuantityOf(One, [mass |-> 1, length |-> 2, time |-> -3], Zero)
  @@ "P"      :> QuantityOf(Num(1, 10), [mass |-> 1, length |-> -1, time |-> -1], Zero)
  @@ "St"     :> QuantityOf(Num(1, 10000), [length |-> 2, time |-> -1], Zero)
  @@ "bit"    :> QuantityOf(One, [information |-> 1], Zero)
  @@ "B"      :> QuantityOf(Whole(8), [information |-> 1], Zero)
  @@ "A"      :> QuantityOf(One, [current |-> 1], Zero)
  @@ "C"      :> QuantityOf(One, [current |-> 1, time |-> 1], Zero)
  @@ "V"      :> QuantityOf(One, [mass |-> 1, length |-> 2, current |-> -1, time |-> -3], Zero)
  @@ "ohm"    :> QuantityOf(One, [mass |-> 1, length |-> 2, time |-> -3, current |-> -2], Zero)
  @@ "F"      :> QuantityOf(One, [time |-> 4, current |-> 2, length |-> -2, mass |-> -1], Zero)
  @@ "H"      :> QuantityOf(One, [length |-> 2, mass |-> 1, time |-> -2, current |-> -2], Zero)
  @@ "S"      :> QuantityOf(One, [time |-> 3, current |-> 2, length |-> -2, mass |-> -1], Zero)
  @@ "Wb"     :> QuantityOf(One, [mass |-> 1, length |-> 2, time |-> -2, current |-> -1], Zero)
  @@ "T"      :> QuantityOf(One, [mass |-> 1, current |-> -1, time |-> -2], Zero)
  @@ "mol"    :> QuantityOf(One, [substance |-> 1], Zero)
  @@ "cd"     :> QuantityOf(One, [luminosity |-> 1], Zero)
  @@ "lm"     :> QuantityOf(One, [luminosity |-> 1, rotation |-> 2], Zero)
  @@ "lx"     :> QuantityOf(One, [luminosity |-> 1, rotation |-> 2, length |-> -2], Zero)
  @@ "rad"    :> QuantityOf(One, [rotation |-> 1], Zero)
  @@ "Hz"     :> QuantityOf(One, [time |-> -1], Zero)
  @@ "Bq"     :> QuantityOf(One, [time |-> -1], Zero)
  @@ "Gy"     :> QuantityOf(One, [length |-> 2, time |-> -2], Zero)
  @@ "Sv"     :> QuantityOf(One, [length |-> 2, time |-> -2], Zero)

prefixes ==
     "m"  :> Num(1, 1000)
  @@ "c"  :> Num(1, 100)
  @@ "d"  :> Num(1, 10)
  @@ "da" :> Whole(10)
  @@ "h"  :> Whole(100)
  @@ "k"  :> Whole(1000)
  @@ "Ki" :> Whole(1024)

----------------------------------------------------------------------------
(* Strings *)

charAt(str, ii) == SubSeq(str, ii, ii)

isSpace(ch) == ch \in {" ", "\t", "\n"}

\* String.prototype.split(sep) for a one-character separator.
RECURSIVE splitFrom(_, _, _, _)
splitFrom(str, sep, ii, cur) ==
  IF ii > Len(str) THEN <<cur>>
  ELSE IF charAt(str, ii) = sep THEN <<cur>> \o splitFrom(str, sep, ii + 1, "")
  ELSE splitFrom(str, sep, ii + 1, cur \o charAt(str, ii))

split(str, sep) == splitFrom(str, sep, 1, "")

RECURSIVE trimStart(_)
trimStart(str) ==
  IF Len(str) > 0 /\ isSpace(charAt(str, 1))
    THEN trimStart(SubSeq(str, 2, Len(str)))
  ELSE str

RECURSIVE trimEnd(_)
trimEnd(str) ==
  IF Len(str) > 0 /\ isSpace(charAt(str, Len(str)))
    THEN trimEnd(SubSeq(str, 1, Len(str) - 1))
  ELSE str

trim(str) == trimEnd(trimStart(str))

\* String.prototype.split(/\s+/g): a run of white space is one separator.
RECURSIVE splitSpacesFrom(_, _, _)
splitSpacesFrom(str, ii, cur) ==
  IF ii > Len(str) THEN <<cur>>
  ELSE IF isSpace(charAt(str, ii))
    THEN IF ii > 1 /\ isSpace(charAt(str, ii - 1))
           THEN splitSpacesFrom(str, ii + 1, cur)
         ELSE <<cur>> \o splitSpacesFrom(str, ii + 1, "")
  ELSE splitSpacesFrom(str, ii + 1, cur \o charAt(str, ii))

splitSpaces(str) == splitSpacesFrom(str, 1, "")

digitValue ==
  "0" :> 0 @@ "1" :> 1 @@ "2" :> 2 @@ "3" :> 3 @@ "4" :> 4 @@
  "5" :> 5 @@ "6" :> 6 @@ "7" :> 7 @@ "8" :> 8 @@ "9" :> 9

\* The value of the longest run of decimal digits of str from ii on, as
\* <<value, digits read>>.
RECURSIVE digitsFrom(_, _, _, _)
digitsFrom(str, ii, acc, cnt) ==
  IF ii <= Len(str) /\ charAt(str, ii) \in DOMAIN digitValue
    THEN digitsFrom(str, ii + 1, 10 * acc + digitValue[charAt(str, ii)], cnt + 1)
  ELSE <<acc, cnt>>

\* parseInt(str) with no radix, for strings without a hexadecimal "0x" head:
\* white space is skipped, then a sign and the decimal digits are read and
\* whatever follows them is ignored; NaN when no digit is read.
parseInt(str) ==
  LET t == trimStart(str)
      signed == Len(t) > 0 /\ charAt(t, 1) \in {"+", "-"}
      sign == IF signed /\ charAt(t, 1) = "-" THEN -1 ELSE 1
      d == digitsFrom(t, IF signed THEN 2 ELSE 1, 0, 0)
  IN  IF d[2] = 0 THEN NaN ELSE Whole(sign * d[1])

\* Number.prototype.toString for an integer.
RECURSIVE natToString(_)
natToString(k) ==
  LET ch == CHOOSE c \in DOMAIN digitValue : digitValue[c] = k % 10
  IN  IF k < 10 THEN ch ELSE natToString(k \div 10) \o ch

intToString(k) == IF k < 0 THEN "-" \o natToString(-k) ELSE natToString(k)

----------------------------------------------------------------------------
(* The unit-string parser.  `units` is the registry the call reads. *)

\* The character loop of getUnitQuantity: <<prefix, unit, exponent>>.
RECURSIVE unitPartsFrom(_, _, _, _)
unitPartsFrom(unitName, ii, appendIdx, unitParts) ==
  IF ii > Len(unitName) THEN unitParts
  ELSE IF charAt(unitName, ii) = "["
    THEN unitPartsFrom(unitName, ii + 1, 1, unitParts)
  ELSE IF charAt(unitName, ii) = "]"
    THEN unitPartsFrom(unitName, ii + 1, 2, unitParts)
  ELSE IF charAt(unitName, ii) = "^"
    THEN unitPartsFrom(unitName, ii + 1, 3, unitParts)
  ELSE unitPartsFrom(unitName, ii + 1, appendIdx,
         [unitParts EXCEPT ![appendIdx] = @ \o charAt(unitName, ii)])

\* prefixValue of getUnitQuantity for a prefix of the table, 1 without prefix.
prefixValueOf(prefix) == IF prefix # "" THEN prefixes[prefix] ELSE One

\* powerValue of getUnitQuantity: parseInt of the exponent, 1 without one.
powerValueOf(power) == IF power # "" THEN parseInt(power) ELSE One

\* unitQuantity.mul(prefixValue), applied when prefixValue is not 1.
prefixed(unitQuantity, prefixValue) ==
  IF prefixValue # One THEN mul(unitQuantity, Number(prefixValue))
  ELSE Return(unitQuantity)

\* unitQuantity.pow(powerValue), applied when powerValue is not 1.
powered(unitQuantity, powerValue) ==
  IF ~unitQuantity.ok THEN unitQuantity
  ELSE IF powerValue # One THEN pow(unitQuantity.val, powerValue)
  ELSE unitQuantity

\* getUnitQuantity after its character loop.
unitOfParts(units, unitParts) ==
  IF unitParts[1] # "" /\ unitParts[1] \notin DOMAIN prefixes
    THEN Throw("not a valid prefix")
  ELSE IF unitParts[2] = "" THEN Throw("Error parsing unit")
  ELSE IF unitParts[2] \notin DOMAIN units THEN Throw("not a valid unit")
  ELSE IF powerValueOf(unitParts[3]) \in {NaN, Zero}
    THEN Throw("not a valid unit power")
  ELSE powered(prefixed(copy(units[unitParts[2]]),
                        prefixValueOf(unitParts[1])),
               powerValueOf(unitParts[3]))

getUnitQuantity(units, unitName) ==
  unitOfParts(units, unitPartsFrom(unitName, 1, 2, <<"", "", "">>))

\* The unit symbols of all sections in the order quantity() visits them, each
\* with its section index si (from 0) and the length of its section's list.
symsOf(si, unitSyms) ==
  [ui \in 1..Len(unitSyms) |->
     [si |-> si, sym |-> unitSyms[ui], n |-> Len(unitSyms)]]

RECURSIVE unitSymsOf(_, _)
unitSymsOf(sections, si) ==
  IF si >= Len(sections) THEN <<>>
  ELSE symsOf(si, splitSpaces(trim(sections[si + 1])))
       \o unitSymsOf(sections, si + 1)

\* sectionUnit without the inversion.
sectionUnitNotInverted(si, unitQuantity) == unitQuantity

\* unitQuantity of the inner loop of quantity(): inverted in the section
\* after the "/".
sectionUnit(si, unitQuantity) ==
  IF unitQuantity.ok /\ si > 0 THEN inv(unitQuantity.val) ELSE unitQuantity

\* The body of the inner loop of quantity() for the unit symbol `term`.
combineUnit(term, nSections, returnQuantity, unitQuantity) ==
  IF ~unitQuantity.ok THEN unitQuantity
  ELSE IF unitQuantity.val.offset = Zero
    THEN mul(returnQuantity, unitQuantity.val)
  ELSE IF nSections = 1 /\ term.n = 1 THEN unitQuantity
  ELSE Throw("Cannot create compound units from units with zero offsets")

\* The two nested loops of quantity(), from the k-th unit symbol on;
\* returnQuantity is the outcome so far.
RECURSIVE combine(_, _, _, _, _)
combine(units, syms, k, nSections, returnQuantity) ==
  IF k > Len(syms) \/ ~returnQuantity.ok THEN returnQuantity
  ELSE combine(units, syms, k + 1, nSections,
               combineUnit(syms[k], nSections, returnQuantity.val,
                           sectionUnit(syms[k].si,
                                       getUnitQuantity(units, syms[k].sym))))

\* parseSections without the test of the number of sections.
parseSectionsOfAnyLength(units, sections) ==
  combine(units, unitSymsOf(sections, 0), 1, Len(sections), Return(Scalar(One)))

\* quantity() from the split of the unit string on.
parseSections(units, sections) ==
  IF Len(sections) > 2
    THEN Throw("Cannot parse unit with 2 or more '/' symbols")
  ELSE combine(units, unitSymsOf(sections, 0), 1, Len(sections),
               Return(Scalar(One)))

\* returnQuantity.magnitude *= magnitude
timesMagnitude(returnQuantity, magnitude) ==
  IF ~returnQuantity.ok THEN returnQuantity
  ELSE Return([returnQuantity.val EXCEPT !.magnitude = Times(@, magnitude)])

\* quantity(magnitude, unitString).  An omitted unitString is the empty string
\* here: the code tests only whether unitString is truthy.
quantity(units, magnitude, unitString) ==
  timesMagnitude(IF unitString # "" THEN parseSections(units,
                                                       split(unitString, "/"))
                 ELSE Return(Scalar(One)),
                 magnitude)

\* The conversion without the subtraction of the target unit's offset.
convertWithoutTargetOffset(q, convertQuantity) ==
  IF ~convertQuantity.ok THEN convertQuantity
  ELSE IF ~sameDimensions(q, convertQuantity.val)
    THEN Throw("Cannot convert units that are not alike")
  ELSE Return(Over(Plus(q.magnitude, q.offset),
                   convertQuantity.val.magnitude))

\* Quantity.prototype.in after the parse of the target unit.
convert(q, convertQuantity) ==
  IF ~convertQuantity.ok THEN convertQuantity
  ELSE IF ~sameDimensions(q, convertQuantity.val)
    THEN Throw("Cannot convert units that are not alike")
  ELSE Return(Over(Minus(Plus(q.magnitude, q.offset),
                         convertQuantity.val.offset),
                   convertQuantity.val.magnitude))

\* Quantity.prototype.in
in(units, q, unitString) == convert(q, quantity(units, One, unitString))

\* The unit define() stores: the offset is divided by the unit's magnitude.
withOffset(newUnit, offset) ==
  IF typeof(offset) # "undefined" /\ offset.num # Zero
    THEN [newUnit EXCEPT !.offset = Over(offset.num, newUnit.magnitude)]
  ELSE newUnit

\* define storing the unit of the unit string without the magnitude.
defineUnitWithoutMagnitude(units, symbol, newUnit, offset) ==
  IF ~newUnit.ok THEN newUnit
  ELSE Return(units @@ (symbol :> [newUnit.val EXCEPT !.magnitude = One]))

\* units[symbol] = newUnit
defineUnit(units, symbol, newUnit, offset) ==
  IF ~newUnit.ok THEN newUnit
  ELSE Return(units @@ (symbol :> withOffset(newUnit.val, offset)))

\* define(symbol, magnitude, unitStr, offset): the registry after the call,
\* or the exception; magnitude and offset may be undefined.
define(units, symbol, magnitude, unitStr, offset) ==
  IF symbol \in DOMAIN units THEN Throw("The unit is already defined")
  ELSE defineUnit(units, symbol,
                  quantity(units,
                           IF typeof(magnitude) = "undefined" THEN One
                           ELSE magnitude.num,
                           unitStr),
                  offset)

----------------------------------------------------------------------------
(* Quantity.prototype.with *)

\* unitArray.push(unitQuantity.dimensions)
pushDimensions(unitArray, unitQuantity) ==
  IF ~unitQuantity.ok THEN unitQuantity
  ELSE Return(Append(unitArray, unitQuantity.val.dimensions))

\* The dimension arrays of the units of unitList, or the first exception of
\* getUnitQuantity.
RECURSIVE unitArrayOf(_, _, _, _)
unitArrayOf(units, unitList, ii, unitArray) ==
  IF ii > Len(unitList) \/ ~unitArray.ok THEN unitArray
  ELSE unitArrayOf(units, unitList, ii + 1,
                   pushDimensions(unitArray.val,
                                  getUnitQuantity(units, unitList[ii])))

\* The remainder array a candidate would leave.
newRemainderArrayOf(remainderArray, unitDimensions, isInv) ==
  [dimIdx \in DimIdx |->
     Minus(remainderArray[dimIdx],
           Times(Whole(isInv), unitDimensions[dimIdx]))]

bestOf(k, unitIdx, isInv, newRemainderArray) ==
  [k |-> k, bestIdx |-> unitIdx, bestInv |-> isInv,
   bestRemainder |-> SumAbs(newRemainderArray, 1),
   bestRemainderArray |-> newRemainderArray]

\* Candidate k = 0, 1, ... of the two inner for loops: unit k \div 2 (from
\* 0) with isInv = -1 for an even k and +1 for an odd k, and the remainder
\* it would leave.
candidate(unitArray, remainderArray, k) ==
  bestOf(k, (k \div 2) + 1, IF k % 2 = 0 THEN -1 ELSE 1,
         newRemainderArrayOf(remainderArray, unitArray[(k \div 2) + 1],
                             IF k % 2 = 0 THEN -1 ELSE 1))

\* The pass with the test newRemainder <= bestRemainder: the last candidate
\* of the smallest remainder.
lastBest(better, remainderArray, remainder) ==
  IF better = {}
    THEN [k |-> -1, bestIdx |-> -1, bestInv |-> 0,
          bestRemainder |-> remainder,
          bestRemainderArray |-> remainderArray]
  ELSE CHOOSE c \in better :
         \A d \in better :
           \/ Less(c.bestRemainder, d.bestRemainder)
           \/ c.bestRemainder = d.bestRemainder /\ c.k >= d.k

\* The first candidate, in the order of the loops, of the smallest remainder
\* among `better`; bestIdx is -1 when there is none.
firstBest(better, remainderArray, remainder) ==
  IF better = {}
    THEN [k |-> -1, bestIdx |-> -1, bestInv |-> 0,
          bestRemainder |-> remainder,
          bestRemainderArray |-> remainderArray]
  ELSE CHOOSE c \in better :
         \A d \in better :
           \/ Less(c.bestRemainder, d.bestRemainder)
           \/ c.bestRemainder = d.bestRemainder /\ c.k <= d.k

\* One pass of the two inner for loops.  A candidate replaces the best one
\* only when its remainder is strictly smaller, so the pass ends with the
\* first candidate of the smallest remainder below `remainder`.
scan(unitArray, remainderArray, remainder) ==
  firstBest({c \in {candidate(unitArray, remainderArray, k) :
                      k \in 0..(2 * Len(unitArray) - 1)} :
               Less(c.bestRemainder, remainder)},
            remainderArray, remainder)

indexOf(seq, v) ==
  IF \E ii \in 1..Len(seq) : seq[ii] = v
    THEN CHOOSE ii \in 1..Len(seq) :
           seq[ii] = v /\ \A jj \in 1..(ii - 1) : seq[jj] # v
  ELSE -1

\* The while loop: the chosen unit indexes (from 1) and their powers, or the
\* exception of the progress check.  useBest is the end of one iteration,
\* with the best candidate of its pass.
RECURSIVE greedy(_, _, _, _, _)
RECURSIVE useBest(_, _, _, _, _, _)
useBest(unitArray, useUnits, useUnitsPower, remainder, best, existingIdx) ==
  IF ~Less(best.bestRemainder, remainder)
    THEN Throw("Cannot represent this quantity with the supplied units")
  ELSE IF existingIdx = -1
    THEN greedy(unitArray, Append(useUnits, best.bestIdx),
                Append(useUnitsPower, best.bestInv),
                best.bestRemainder, best.bestRemainderArray)
  ELSE greedy(unitArray, useUnits,
              [useUnitsPower EXCEPT ![existingIdx] = @ + best.bestInv],
              best.bestRemainder, best.bestRemainderArray)

bestIn(unitArray, useUnits, useUnitsPower, remainder, best) ==
  useBest(unitArray, useUnits, useUnitsPower, remainder, best,
          indexOf(useUnits, best.bestIdx))

greedy(unitArray, useUnits, useUnitsPower, remainder, remainderArray) ==
  IF ~Less(Zero, remainder)
    THEN Return([useUnits |-> useUnits, useUnitsPower |-> useUnitsPower])
  ELSE bestIn(unitArray, useUnits, useUnitsPower, remainder,
              scan(unitArray, remainderArray, remainder))

\* The while loop of q.with on the dimension arrays of the unit list.
chooseFrom(unitArray, q) ==
  IF ~unitArray.ok THEN unitArray
  ELSE greedy(unitArray.val, <<>>, <<>>, dimensionality(q), q.dimensions)

\* The units the loop of q.with(unitList) chooses.
chosenUnits(units, q, unitList) ==
  chooseFrom(unitArrayOf(units, unitList, 1, Return(<<>>)), q)

\* unitText with the power written whatever it is.
unitTextWithPower(symbol, power) ==
  symbol \o "^" \o intToString(Abs(power)) \o " "

\* The text of one chosen unit in the numerator or denominator string.
unitText(symbol, power) ==
  symbol \o (IF Abs(power) > 1 THEN "^" \o intToString(Abs(power)) \o " "
             ELSE " ")

\* The numerator (positive = TRUE) or denominator string of the chosen units.
RECURSIVE unitsString(_, _, _, _, _)
unitsString(unitList, useUnits, useUnitsPower, ii, positive) ==
  IF ii > Len(useUnits) THEN ""
  ELSE (IF (useUnitsPower[ii] > 0) = positive
          THEN unitText(unitList[useUnits[ii]], useUnitsPower[ii])
        ELSE "")
       \o unitsString(unitList, useUnits, useUnitsPower, ii + 1, positive)

joinUnits(numerator, denominator) ==
  IF numerator = "" /\ denominator = "" THEN "1"
  ELSE IF denominator = "" THEN trim(numerator)
  ELSE trim((IF numerator = "" THEN "1 " ELSE numerator)
            \o "/ " \o denominator)

fullUnitsOf(unitList, useUnits, useUnitsPower) ==
  joinUnits(unitsString(unitList, useUnits, useUnitsPower, 1, TRUE),
            unitsString(unitList, useUnits, useUnitsPower, 1, FALSE))

\* return [this.in(fullUnits), fullUnits]
withUnits(magnitude, unitString) ==
  IF ~magnitude.ok THEN magnitude ELSE Return(<<magnitude.val, unitString>>)

inFullUnits(units, q, unitString) ==
  withUnits(in(units, q, unitString), unitString)

\* q.with(unitList) after its while loop.
withChosen(units, q, unitList, chosen) ==
  IF ~chosen.ok THEN chosen
  ELSE inFullUnits(units, q, fullUnitsOf(unitList, chosen.val.useUnits,
                                         chosen.val.useUnitsPower))

\* q.with(unitList): <<magnitude, unit string>> or the exception.
with(units, q, unitList) ==
  withChosen(units, q, unitList, chosenUnits(units, q, unitList))

\* The SI list without the base unit of current.
listSIWithoutAmpere ==
  <<"[k]g", "m", "s", "K", "mol", "cd", "bit", "rad",
    "Hz", "N", "Pa", "J", "W", "C", "V", "F", "ohm", "S", "Wb", "T", "H",
    "lm", "lx", "Bq", "Gy", "Sv">>

listSI ==
  <<"[k]g", "m", "s", "K", "A", "mol", "cd", "bit", "rad",
    "Hz", "N", "Pa", "J", "W", "C", "V", "F", "ohm", "S", "Wb", "T", "H",
    "lm", "lx", "Bq", "Gy", "Sv">>

listCGS == <<"g", "[c]m", "s", "deltaC", "dyn", "erg", "Ba", "P", "St">>

inSI(units, q) == with(units, q, listSI)
inCGS(units, q) == with(units, q, listCGS)

----------------------------------------------------------------------------
(* quantity() of src/src/pqm.js.  Its methods copy, inv, mul and pow do    *)
(* what those of pqm.mjs do on the quantities quantity() passes them.  It  *)
(* matches each unit symbol against                                        *)
(* /^(?:\[(\D+)\])?(1|\D+)(?:\^([\-\d]+))?$/ and, for a unit with an       *)
(* offset, returns the object of the units table itself.                   *)

isDigit(ch) == ch \in DOMAIN digitValue

noDigit(str) == \A ii \in 1..Len(str) : ~isDigit(charAt(str, ii))

powerText(str) ==
  /\ Len(str) > 0
  /\ \A ii \in 1..Len(str) : charAt(str, ii) = "-" \/ isDigit(charAt(str, ii))

\* The ways the pattern matches sym.  A match is <<pe, ue>>: the prefix
\* group ends with the "]" at pe (0: no prefix group), the unit ends at ue,
\* and the rest is empty or "^" and the power.
regexMatches(sym) ==
  {m \in (0..Len(sym)) \X (1..Len(sym)) :
     /\ \/ m[1] = 0
        \/ /\ m[1] >= 3
           /\ charAt(sym, 1) = "["
           /\ charAt(sym, m[1]) = "]"
           /\ noDigit(SubSeq(sym, 2, m[1] - 1))
     /\ m[2] > m[1]
     /\ \/ SubSeq(sym, m[1] + 1, m[2]) = "1"
        \/ noDigit(SubSeq(sym, m[1] + 1, m[2]))
     /\ \/ m[2] = Len(sym)
        \/ /\ charAt(sym, m[2] + 1) = "^"
           /\ powerText(SubSeq(sym, m[2] + 2, Len(sym)))}

\* The groups of the match <<pe, ue>>.
groupsOf(sym, best) ==
  [matched |-> TRUE,
   prefix |-> IF best[1] = 0 THEN "" ELSE SubSeq(sym, 2, best[1] - 1),
   unit |-> SubSeq(sym, best[1] + 1, best[2]),
   power |-> IF best[2] = Len(sym) THEN ""
             ELSE SubSeq(sym, best[2] + 2, Len(sym))]

\* The greedy quantifiers prefer the prefix group, then the longest prefix,
\* then the longest unit.
preferred(sym, matches) ==
  IF matches = {} THEN [matched |-> FALSE]
  ELSE groupsOf(sym, CHOOSE m \in matches :
                       \A o \in matches :
                         o[1] < m[1] \/ (o[1] = m[1] /\ o[2] <= m[2]))

\* unitRegex.exec(sym)
unitRegex(sym) == preferred(sym, regexMatches(sym))

\* prefixValue of the inner loop: inverted in the section after the "/".
prefixValueJs(prefix, si) ==
  IF prefix = "" THEN One
  ELSE IF si = 1 THEN Over(One, prefixes[prefix])
  ELSE prefixes[prefix]

\* unitQuantity of the inner loop: a copy, inverted in the section after
\* the "/".
unitQuantityJs(unitQuantity, si) ==
  IF si = 1 THEN inv(unitQuantity) ELSE Return(unitQuantity)

newReturnQuantity(product) ==
  IF ~product.ok THEN product
  ELSE Return([val |-> product.val, table |-> ""])

timesRaised(returnQuantity, raised) ==
  IF ~raised.ok THEN raised
  ELSE newReturnQuantity(mul(returnQuantity, raised.val))

raisedJs(scaled, powerValue) ==
  IF ~scaled.ok THEN scaled ELSE pow(scaled.val, powerValue)

\* The end of the body of the inner loop: the product for a unit without
\* offset, the object of the units table for one with an offset.
placeUnit(units, term, nSections, returnQuantity, prefixValue, powerValue, unitQuantity) ==
  IF ~unitQuantity.ok THEN unitQuantity
  ELSE IF powerValue = NaN \/ powerValue = Zero
    THEN Throw("not a valid unit power")
  ELSE IF unitQuantity.val.offset = Zero
    THEN timesRaised(returnQuantity,
                     raisedJs(mul(unitQuantity.val, Number(prefixValue)),
                              powerValue))
  ELSE IF prefixValue # One
    THEN Throw("Cannot add prefix to non 0 offset unit")
  ELSE IF ~(nSections = 1 /\ term.n = 1)
    THEN Throw("Cannot create a compound unit with non-zero offset unit")
  ELSE IF term.sym \notin DOMAIN units
    THEN Return([val |-> undefined, table |-> ""])
  ELSE Return([val |-> units[term.sym], table |-> term.sym])

unitOfMatch(units, term, nSections, returnQuantity, matches) ==
  IF ~matches.matched THEN Throw("Cannot convert to a valid unit")
  ELSE IF matches.prefix # "" /\ matches.prefix \notin DOMAIN prefixes
    THEN Throw("not a valid prefix")
  ELSE IF matches.unit \notin DOMAIN units THEN Throw("not a valid unit")
  ELSE placeUnit(units, term, nSections, returnQuantity,
                 prefixValueJs(matches.prefix, term.si),
                 powerValueOf(matches.power),
                 unitQuantityJs(copy(units[matches.unit]), term.si))

\* The body of the inner loop for one unit symbol: the new returnQuantity,
\* with `table` the key of the units table whose object it is ("" when it
\* is a new object), or the exception.
unitJs(units, term, nSections, returnQuantity) ==
  unitOfMatch(units, term, nSections, returnQuantity, unitRegex(term.sym))

\* The two nested loops, from the k-th unit symbol on; current is the
\* outcome so far.
RECURSIVE combineJs(_, _, _, _, _)
combineJs(units, syms, k, nSections, current) ==
  IF k > Len(syms) \/ ~current.ok THEN current
  ELSE combineJs(units, syms, k + 1, nSections,
                 unitJs(units, syms[k], nSections, current.val.val))

parseSectionsJs(units, sections) ==
  IF Len(sections) > 2
    THEN Throw("Cannot parse unit with 2 or more '/' symbols")
  ELSE combineJs(units, unitSymsOf(sections, 0), 1, Len(sections),
                 Return([val |-> Scalar(One), table |-> ""]))

\* The quantity returned and the units table: they hold the same object
\* when returnQuantity is the object of the table under the key `table`.
returned(units, table, returnQuantity) ==
  [out |-> Return(returnQuantity),
   units |-> IF table # "" THEN [units EXCEPT ![table] = returnQuantity]
             ELSE units]

\* returnQuantity.magnitude *= magnitude
timesMagnitudeJs(units, magnitude, looped) ==
  IF ~looped.ok THEN [out |-> looped, units |-> units]
  ELSE IF typeof(looped.val.val) = "undefined"
    THEN [out |-> Throw("TypeError"), units |-> units]
  ELSE returned(units, looped.val.table,
                [looped.val.val EXCEPT !.magnitude = Times(@, magnitude)])

\* quantity(magnitude, unitString) of pqm.js: its outcome and the units
\* table after the call.
quantityJs(units, magnitude, unitString) ==
  timesMagnitudeJs(units, magnitude,
                   IF unitString # ""
                     THEN parseSectionsJs(units, split(unitString, "/"))
                   ELSE Return([val |-> Scalar(One), table |-> ""]))

----------------------------------------------------------------------------
(* A program that uses the library: it makes one call at a time and may    *)
(* keep a returned quantity in x, the receiver of its later calls.         *)

VARIABLES
  units,   \* the unit registry: symbol -> Quantity
  x,       \* the quantity the program holds, or undefined
  ret,     \* the last call: its name, its arguments and its outcome
  calls,   \* the number of calls made
  heap     \* the Quantity objects and dimension arrays of the program that
           \* tracks object identity; empty in the other programs

vars == <<units, x, ret, calls, heap>>

\* A heap: objs[id] is a Quantity object whose field dimensions is the index
\* in arrays of its dimension array.
EmptyHeap == [arrays |-> <<>>, objs |-> <<>>]

\* The number of calls of one run.
MaxCalls == 2

\* A kept quantity has a magnitude whose numerator and denominator are at
\* most MaxComponent, so that the model's integer arithmetic stays exact.
MaxComponent == 2000

Magnitudes == {Whole(-1), Whole(0), Whole(1), Whole(2)}

UnitStrings ==
  {"", "m", "[k]m", "m^2", "s", "m / s", "K", "deltaC", "degC", "Reau",
   "Pa-g", "kg"}

\* What quantity() returns for the built-in units over the given magnitudes
\* and unit strings.
Parsed(magnitudes, unitStrings) ==
  {r.val : r \in {q \in {quantity(BuiltinUnits, magnitude, unitString) :
                           magnitude \in magnitudes,
                           unitString \in unitStrings} : q.ok}}

\* The second operands the program passes: quantities and plain numbers.
Operands ==
  Parsed({Whole(-1), Whole(0), Whole(2)}, {"m", "K", "degC"})
  \cup {Number(Whole(0)), Number(Whole(2))}

Powers == {Whole(-1), Whole(0), Whole(1), Whole(2), Num(1, 2)}

\* The tolerances the program passes: none, fractions, and quantities.
Tolerances ==
  {undefined, Number(Zero), Number(Num(1, 2))}
  \cup Parsed({Whole(2)}, {"", "m", "degC"})
  \cup Parsed({Zero}, {"K"})

Fits(q) ==
  /\ Abs(q.magnitude[1]) <= MaxComponent
  /\ q.magnitude[2] <= MaxComponent

Init ==
  /\ units = BuiltinUnits
  /\ x = undefined
  /\ ret = [op |-> "none"]
  /\ calls = 0
  /\ heap = EmptyHeap

\* A call r that leaves the registry alone; the program keeps a returned
\* quantity in x when `keep` says so.
Call(r, keep) ==
  /\ calls' = calls + 1
  /\ ret' = r
  /\ x' = IF keep /\ r.out.ok /\ Fits(r.out.val) THEN r.out.val ELSE x
  /\ UNCHANGED <<units, heap>>

Held(v) == typeof(v) = "object"

\* The program has calls left to make.
Running == calls < MaxCalls

NewQuantity ==
  /\ Running
  /\ \E magnitude \in Magnitudes, unitString \in UnitStrings :
       Call([op |-> "quantity", magnitude |-> magnitude,
             unitString |-> unitString,
             out |-> quantity(units, magnitude, unitString)], TRUE)

Add ==
  /\ Running
  /\ Held(x)
  /\ \E other \in Operands :
       Call([op |-> "add", self |-> x, other |-> other,
             out |-> add(x, other)], TRUE)

Sub ==
  /\ Running
  /\ Held(x)
  /\ \E other \in Operands :
       Call([op |-> "sub", self |-> x, other |-> other,
             out |-> sub(x, other)], TRUE)

Mul ==
  /\ Running
  /\ Held(x)
  /\ \E other \in Operands :
       Call([op |-> "mul", self |-> x, other |-> other,
             out |-> mul(x, other)], TRUE)

Div ==
  /\ Running
  /\ Held(x)
  /\ \E other \in Operands :
       /\ Coerce(other).magnitude # Zero
       /\ Call([op |-> "div", self |-> x, other |-> other,
                out |-> div(x, other)], TRUE)

Inv ==
  /\ Running
  /\ Held(x)
  /\ x.magnitude # Zero
  /\ Call([op |-> "inv", self |-> x, out |-> inv(x)], TRUE)

Pow ==
  /\ Running
  /\ Held(x)
  /\ \E n \in Powers :
       /\ Less(n, Zero) => x.magnitude # Zero
       /\ Call([op |-> "pow", self |-> x, n |-> n, out |-> pow(x, n)], TRUE)

Root ==
  /\ Running
  /\ Held(x)
  /\ \E n \in Powers :
       /\ (isInteger(n) /\ n[1] >= 1) => HasRoot(MathAbs(x.magnitude), n[1])
       /\ Call([op |-> "root", self |-> x, n |-> n, out |-> root(x, n)], TRUE)

Compare ==
  /\ Running
  /\ Held(x)
  /\ \E other \in Operands, tolerance \in Tolerances :
       Call([op |-> "compare", self |-> x, other |-> other,
             tolerance |-> tolerance,
             out |-> compare(x, other, tolerance),
             eq |-> eq(x, other, tolerance),
             lt |-> lt(x, other, tolerance),
             lte |-> lte(x, other, tolerance),
             gt |-> gt(x, other, tolerance),
             gte |-> gte(x, other, tolerance)], FALSE)

In ==
  /\ Running
  /\ Held(x)
  /\ \E unitString \in UnitStrings :
       Call([op |-> "in", self |-> x, unitString |-> unitString,
             out |-> in(units, x, unitString)], FALSE)

Next ==
  \/ NewQuantity
  \/ Add
  \/ Sub
  \/ Mul
  \/ Div
  \/ Inv
  \/ Pow
  \/ Root
  \/ Compare
  \/ In

Spec == Init /\ [][Next]_vars

----------------------------------------------------------------------------
(* Properties of the arithmetic, checked under Spec *)

C2_sub ==
  ret.op = "sub" =>
    LET a == ret.self
        b == Coerce(ret.other)
    IN  IF a.dimensions # b.dimensions THEN ~ret.out.ok
        ELSE /\ ret.out.ok
             /\ ret.out.val.dimensions = a.dimensions
             /\ IF b.offset # Zero
                  THEN /\ ret.out.val.offset = Zero
                       /\ ret.out.val.magnitude =
                            Minus(Plus(a.magnitude, a.offset),
                                  Plus(b.magnitude, b.offset))
                ELSE /\ ret.out.val.offset = a.offset
                     /\ ret.out.val.magnitude = Minus(a.magnitude, b.magnitude)

\* 2 degC - (-1) K = 3 degC: the receiver's offset is kept.
C2_witness ==
  /\ ret.op = "sub"
  /\ ret.self.offset # Zero
  /\ Coerce(ret.other).offset = Zero
  /\ ret.self.magnitude = Whole(2)
  /\ Coerce(ret.other).magnitude = Whole(-1)
  /\ ret.out.ok
  /\ ret.out.val.magnitude = Whole(3)
  /\ ret.out.val.offset = ret.self.offset

C4_in ==
  ret.op = "in" =>
    LET q == ret.self
        u == ret.unitString
        ref == quantity(units, One, u)
    IN  /\ ref.ok /\ q.dimensions # ref.val.dimensions => ~ret.out.ok
        /\ ref.ok /\ q.dimensions = ref.val.dimensions =>
             ret.out = Return(Over(Minus(Plus(q.magnitude, q.offset),
                                         ref.val.offset),
                                   ref.val.magnitude))
        /\ \A m \in Magnitudes :
             quantity(units, m, u) = Return(q) => ret.out = Return(m)
        /\ quantity(units, One, "[k]m") = Return(q) /\ u = "m" =>
             ret.out = Return(Whole(1000))

\* quantity(1, "[k]m").in("m") has returned 1000.
C4_witness ==
  /\ ret.op = "in"
  /\ quantity(units, One, "[k]m") = Return(ret.self)
  /\ ret.unitString = "m"
  /\ ret.out = Return(Whole(1000))

C7_integerExponents ==
  /\ Held(x) => \A ii \in DimIdx : isInteger(x.dimensions[ii])
  /\ ret.op = "root" /\ isInteger(ret.n) /\ ret.n[1] >= 1
       /\ (\E ii \in DimIdx : ~isInteger(Over(ret.self.dimensions[ii], ret.n)))
     => ~ret.out.ok

----------------------------------------------------------------------------
(* The parser on unit strings that name a unit with an offset: a program   *)
(* that only calls quantity().                                             *)

OffsetSymbols == {sym \in DOMAIN BuiltinUnits : BuiltinUnits[sym].offset # Zero}

\* An offset unit alone, with a prefix, with a power, after "/", and with a
\* companion term; and two units without an offset.
OffsetUnitStrings ==
  {prefix \o sym \o power :
     prefix \in {"", "[k]", "[c]"}, sym \in OffsetSymbols,
     power \in {"", "^1", "^2", "^-1", "^-2", "^0"}}
  \cup {" " \o sym \o " " : sym \in OffsetSymbols}
  \cup {"1 / " \o sym : sym \in OffsetSymbols}
  \cup {"m / " \o sym : sym \in OffsetSymbols}
  \cup {sym \o " / s" : sym \in OffsetSymbols}
  \cup {sym \o " m" : sym \in OffsetSymbols}
  \cup {"m " \o sym : sym \in OffsetSymbols}
  \cup {"K", "[k]K^-1"}

ParseQuantity ==
  /\ Running
  /\ \E magnitude \in {Whole(1), Whole(2)}, unitString \in OffsetUnitStrings :
       Call([op |-> "quantity", magnitude |-> magnitude,
             unitString |-> unitString,
             out |-> quantity(units, magnitude, unitString)], TRUE)

SpecParse == Init /\ [][ParseQuantity]_vars

\* The unit string gives a registry unit with an offset a prefix, a power
\* other than 1, a place after "/" or a companion term.
CompoundsOffsetUnit(unitString) ==
  LET sections == split(unitString, "/")
      syms == unitSymsOf(sections, 0)
  IN  \E k \in 1..Len(syms) :
        LET unitParts == unitPartsFrom(syms[k].sym, 1, 2, <<"", "", "">>)
        IN  /\ unitParts[2] \in DOMAIN units
            /\ units[unitParts[2]].offset # Zero
            /\ \/ unitParts[1] # ""
               \/ unitParts[3] # "" /\ parseInt(unitParts[3]) # One
               \/ syms[k].si > 0
               \/ Len(syms) > 1

\* C6: a registry unit with an offset may appear in a unit string only as the
\* sole term of a single section, with no prefix and power 1: quantity()
\* throws for every unit string that gives such a unit a prefix, a power
\* other than 1 (a negative one such as "degC^-1" too), a place after "/" or
\* a companion term; so every quantity that quantity() returns with an
\* offset has the dimension vector and the offset of one registry unit.
C6_offsetUnits ==
  ret.op = "quantity" =>
    /\ CompoundsOffsetUnit(ret.unitString) => ~ret.out.ok
    /\ ret.out.ok /\ ret.out.val.offset # Zero =>
         \E sym \in DOMAIN units :
           /\ ret.out.val.dimensions = units[sym].dimensions
           /\ ret.out.val.offset = units[sym].offset

----------------------------------------------------------------------------
(* Conversions: a program that makes one quantity with quantity() and      *)
(* converts it once with with(), inSI() or inCGS().                        *)

\* The largest sum of absolute exponents of the dimension vectors tried.
MaxNorm == 2

\* The base unit of each dimension, in the order of dimensionTypes.
baseUnits == <<"[k]g", "m", "s", "K", "A", "mol", "cd", "bit", "rad">>

\* The integer exponent vectors over the dimensions ii.. whose absolute
\* exponents sum to at most budget.
RECURSIVE ExponentsFrom(_, _)
ExponentsFrom(ii, budget) ==
  IF ii > numDimensionTypes THEN {<<>>}
  ELSE UNION {{<<e>> \o rest : rest \in ExponentsFrom(ii + 1, budget - Abs(e))} :
                e \in (-budget)..budget}

\* The unit string of an exponent vector over the base units, such as
\* "[k]g m s^-2 ".
RECURSIVE unitStringFrom(_, _)
unitStringFrom(exps, ii) ==
  IF ii > Len(exps) THEN ""
  ELSE (IF exps[ii] = 0 THEN ""
        ELSE IF exps[ii] = 1 THEN baseUnits[ii] \o " "
        ELSE baseUnits[ii] \o "^" \o intToString(exps[ii]) \o " ")
       \o unitStringFrom(exps, ii + 1)

\* Unit strings of larger dimension vectors.
CompoundUnitStrings ==
  {"J", "W", "V", "ohm", "F", "N m", "J / s", "V / m", "1 / P^3", "m^4",
   "[k]m / min", "Gy", "m^-2", "N / m^2", "lx", "C / s", "N", "1 / N"}

UnitLists ==
  {<<"m", "s">>, <<"[d]m", "min">>, <<"N", "m">>, <<"J", "s">>, <<"V", "A">>,
   <<"RSI", "P">>, <<"St", "s">>, <<"m^2">>, <<"m^-1">>, <<"Hz">>,
   <<"degC">>, <<"N", "m", "s">>}

NewDimensioned ==
  /\ Running
  /\ ret.op = "none"
  /\ \E unitString \in
          {unitStringFrom(exps, 1) : exps \in ExponentsFrom(1, MaxNorm)}
          \cup CompoundUnitStrings :
       Call([op |-> "quantity", magnitude |-> Whole(2),
             unitString |-> unitString,
             out |-> quantity(units, Whole(2), unitString)], TRUE)

\* The quantity was just made and has not been converted yet.
Fresh == Running /\ Held(x) /\ ret.op = "quantity"

With ==
  /\ Fresh
  /\ \E unitList \in UnitLists :
       Call([op |-> "with", self |-> x, unitList |-> unitList,
             chosen |-> chosenUnits(units, x, unitList),
             out |-> with(units, x, unitList)], FALSE)

InSI ==
  /\ Fresh
  /\ Call([op |-> "inSI", self |-> x, out |-> inSI(units, x)], FALSE)

InCGS ==
  /\ Fresh
  /\ Call([op |-> "inCGS", self |-> x, out |-> inCGS(units, x)], FALSE)

NextWith ==
  \/ NewDimensioned
  \/ With
  \/ InSI
  \/ InCGS

SpecWith == Init /\ [][NextWith]_vars

\* The sum over i of useUnitsPower[i] * dims(unitList[useUnits[i]]).
RECURSIVE weightedDimensions(_, _, _)
weightedDimensions(unitList, chosen, ii) ==
  IF ii > Len(chosen.useUnits) THEN ZeroDimensions
  ELSE LET dims == getUnitQuantity(units, unitList[chosen.useUnits[ii]])
                     .val.dimensions
           rest == weightedDimensions(unitList, chosen, ii + 1)
       IN  [dd \in DimIdx |->
              Plus(Times(Whole(chosen.useUnitsPower[ii]), dims[dd]), rest[dd])]

\* C8: whenever the greedy loop of q.with(U) brings the remainder to 0, the
\* recorded (unit, power) pairs satisfy sum_i power_i * dims(U[i]) = q's
\* dimension vector with every recorded power nonzero, the assembled unit
\* string parses to q's dimension vector, and so in() succeeds and with()
\* returns [magnitude, unitString].
C8_with ==
  ret.op = "with" /\ ret.chosen.ok =>
    LET q == ret.self
        chosen == ret.chosen.val
        fullUnits == fullUnitsOf(ret.unitList, chosen.useUnits,
                                 chosen.useUnitsPower)
        parsed == quantity(units, One, fullUnits)
    IN  /\ weightedDimensions(ret.unitList, chosen, 1) = q.dimensions
        /\ \A ii \in 1..Len(chosen.useUnitsPower) : chosen.useUnitsPower[ii] # 0
        /\ parsed.ok
        /\ parsed.val.dimensions = q.dimensions
        /\ ret.out.ok
        /\ ret.out.val[2] = fullUnits

\* C9: inSI() represents every quantity: for every vector of integer
\* exponents over the nine dimensions q.inSI() returns a [magnitude,
\* unitString] pair whose unit string has q's dimensions; inCGS() may fail.
C9_inSI ==
  ret.op = "inSI" /\ (\A ii \in DimIdx : isInteger(ret.self.dimensions[ii])) =>
    /\ ret.out.ok
    /\ in(units, ret.self, ret.out.val[2]) = Return(ret.out.val[1])

\* inSI() has returned for a quantity of three or more base-unit factors
\* that inCGS() cannot represent.
C9_witness ==
  /\ ret.op = "inSI"
  /\ ~Less(dimensionality(ret.self), Whole(3))
  /\ ret.out.ok
  /\ ~chosenUnits(units, ret.self, listCGS).ok

----------------------------------------------------------------------------
(* The registry: a program that defines units with define() and uses them  *)
(* with quantity() and in().                                               *)

DefineSymbols == {"m", "degC", "foo", "bar"}
DefineUnitStrings == {"", "m", "m / s", "degC", "foo", "nope", "m^0"}

Define ==
  /\ Running
  /\ \E symbol \in DefineSymbols,
        magnitude \in {undefined, Number(Whole(2))},
        unitStr \in DefineUnitStrings,
        offset \in {undefined, Number(Whole(10))} :
       LET r == define(units, symbol, magnitude, unitStr, offset)
       IN  /\ units' = IF r.ok THEN r.val ELSE units
           /\ ret' = [op |-> "define", symbol |-> symbol,
                      magnitude |-> magnitude, unitStr |-> unitStr,
                      offset |-> offset,
                      out |-> IF r.ok THEN Return(undefined) ELSE r]
           /\ calls' = calls + 1
           /\ UNCHANGED <<x, heap>>

UseQuantity ==
  /\ Running
  /\ \E unitString \in DefineSymbols \cup DefineUnitStrings :
       Call([op |-> "quantity", magnitude |-> Whole(2),
             unitString |-> unitString,
             out |-> quantity(units, Whole(2), unitString)], TRUE)

UseIn ==
  /\ Running
  /\ Held(x)
  /\ \E unitString \in DefineSymbols \cup DefineUnitStrings :
       Call([op |-> "in", self |-> x, unitString |-> unitString,
             out |-> in(units, x, unitString)], FALSE)

NextDefine ==
  \/ Define
  \/ UseQuantity
  \/ UseIn

SpecDefine == Init /\ [][NextDefine]_vars

----------------------------------------------------------------------------
(* A program that calls quantity() of src/src/pqm.js *)

JsUnitStrings ==
  {"", "m", "[k]m", "m^2", "m / s", "1 / s^2", "K", "degC", "Reau", "Pa-g",
   "degC^1", "degC^-1", "[k]degC", "degC m", "1 / degC", "m^x", "2m"}

\* The units table of pqm.js: the entries of the table of pqm.mjs kept above
\* that pqm.js has too, with the same scales, dimensions and offsets.
unitsJs ==
  [sym \in DOMAIN BuiltinUnits \
            {"Ba", "Pa-g", "RSI", "P", "St", "Hz", "Bq", "Gy", "Sv"} |->
     BuiltinUnits[sym]]

InitJs ==
  /\ units = unitsJs
  /\ x = undefined
  /\ ret = [op |-> "none"]
  /\ calls = 0
  /\ heap = EmptyHeap

JsQuantity ==
  /\ Running
  /\ \E magnitude \in Magnitudes, unitString \in JsUnitStrings :
       LET r == quantityJs(units, magnitude, unitString)
       IN  /\ units' = r.units
           /\ ret' = [op |-> "quantity", magnitude |-> magnitude,
                      unitString |-> unitString, out |-> r.out]
           /\ x' = IF r.out.ok THEN r.out.val ELSE x
           /\ calls' = calls + 1
           /\ UNCHANGED heap

SpecJs == InitJs /\ [][JsQuantity]_vars

\* C10: the registry is append-only over any sequence of calls: no call
\* removes a symbol or changes the scale, the dimension vector or the offset
\* stored for it, in every variant of quantity() under src/src; a define()
\* that throws (the symbol is already present, or its unit string does not
\* resolve) leaves the registry as it was, and only define() adds a symbol.
C10_appendOnly ==
  [][/\ \A sym \in DOMAIN units :
          sym \in DOMAIN units' /\ units'[sym] = units[sym]
     /\ units' # units => ret'.op = "define" /\ ret'.out.ok
     /\ (ret'.op = "define" /\ ret'.symbol \in DOMAIN units) => ~ret'.out.ok
    ]_vars

----------------------------------------------------------------------------
(* Object identity.  A program that holds several Quantity objects and     *)
(* calls their methods; the heap records which dimension array each        *)
(* object points to, and the writes the methods make into arrays.          *)

\* The number of calls of one run of this program.
MaxHeapCalls == 3

\* The value of the object id.
deref(h, id) ==
  Quantity(h.objs[id].magnitude, h.arrays[h.objs[id].dimensions],
           h.objs[id].offset)

\* An argument is a plain number or a reference [id |-> k] to an object; a
\* number becomes new Quantity(other), an object of the call only.
argValue(h, other) ==
  IF typeof(other) = "number" THEN Scalar(other.num) ELSE deref(h, other.id)

\* The objects among a receiver and an argument.
operandsOf(self, other) ==
  {self} \cup (IF typeof(other) = "object" THEN {other.id} ELSE {})

\* new Array(numDimensionTypes), filled by the caller with `contents`.
newArray(h, contents) ==
  [h |-> [h EXCEPT !.arrays = Append(@, contents)],
   dimensions |-> Len(h.arrays) + 1]

\* copyDimensions() returning the receiver's own array.
copyDimensionsAliased(h, id) == [h |-> h, dimensions |-> h.objs[id].dimensions]

\* this.copyDimensions(): a new array with the elements of this.dimensions.
copyDimensionsH(h, id) == newArray(h, h.arrays[h.objs[id].dimensions])

\* newDimensions[ii] = ... for every ii, on the array a.dimensions.
writeArray(a, contents) ==
  [h |-> [a.h EXCEPT !.arrays[a.dimensions] = contents],
   dimensions |-> a.dimensions]

\* new Quantity(magnitude, dimensions, offset) with the array a.dimensions:
\* the constructor keeps the array it is given.
newQuantityH(a, magnitude, offset) ==
  [h |-> [a.h EXCEPT !.objs = Append(@, [magnitude |-> magnitude,
                                         dimensions |-> a.dimensions,
                                         offset |-> offset])],
   out |-> Return(Len(a.h.objs) + 1)]

\* return new Quantity(.., this.copyDimensions(), ..) of add and sub; r is
\* the outcome of the method on the values.
copiedH(h, self, r) ==
  IF ~r.ok THEN [h |-> h, out |-> r]
  ELSE newQuantityH(copyDimensionsH(h, self), r.val.magnitude, r.val.offset)

\* let newDimensions = this.copyDimensions(), the loop that writes every
\* element of newDimensions, and return new Quantity(.., newDimensions, ..)
\* of inv, pow and root.
rewrittenH(h, self, r) ==
  IF ~r.ok THEN [h |-> h, out |-> r]
  ELSE newQuantityH(writeArray(copyDimensionsH(h, self), r.val.dimensions),
                    r.val.magnitude, r.val.offset)

\* return new Quantity(.., newDimensions) with newDimensions = new
\* Array(numDimensionTypes) of mul, and new Quantity(1) of pow.
freshH(h, r) ==
  IF ~r.ok THEN [h |-> h, out |-> r]
  ELSE newQuantityH(newArray(h, r.val.dimensions), r.val.magnitude,
                    r.val.offset)

addH(h, self, other) == copiedH(h, self, add(deref(h, self), argValue(h, other)))
subH(h, self, other) == copiedH(h, self, sub(deref(h, self), argValue(h, other)))
mulH(h, self, other) == freshH(h, mul(deref(h, self), argValue(h, other)))
invH(h, self) == rewrittenH(h, self, inv(deref(h, self)))

\* div: this.mul(other.inv()), whose result is the new object of mul.
divH(h, self, other) == freshH(h, div(deref(h, self), argValue(h, other)))

powH(h, self, n) ==
  IF n = Zero THEN freshH(h, pow(deref(h, self), n))
  ELSE rewrittenH(h, self, pow(deref(h, self), n))

rootH(h, self, n) == rewrittenH(h, self, root(deref(h, self), n))

\* compare and its wrappers, in and with write no field and no array
\* element of an object they are given.
readH(h, r) == [h |-> h, out |-> r]

\* quantity(magnitude, unitString) returns a new object.
quantityH(h, magnitude, unitString) ==
  freshH(h, quantity(units, magnitude, unitString))

HeapRunning == calls < MaxHeapCalls

Ids == DOMAIN heap.objs

Arguments == {[id |-> id] : id \in Ids} \cup {Number(Whole(2))}

HeapCall(name, operands, r) ==
  /\ heap' = r.h
  /\ ret' = [op |-> name, operands |-> operands, before |-> heap,
             out |-> r.out]
  /\ calls' = calls + 1
  /\ UNCHANGED <<units, x>>

HeapQuantity ==
  /\ HeapRunning
  /\ \E magnitude \in {Whole(2), Whole(4)}, unitString \in {"m", "m^2", "degC"} :
       HeapCall("quantity", {}, quantityH(heap, magnitude, unitString))

HeapAdd ==
  /\ HeapRunning
  /\ \E self \in Ids, other \in Arguments :
       HeapCall("add", operandsOf(self, other), addH(heap, self, other))

HeapSub ==
  /\ HeapRunning
  /\ \E self \in Ids, other \in Arguments :
       HeapCall("sub", operandsOf(self, other), subH(heap, self, other))

HeapMul ==
  /\ HeapRunning
  /\ \E self \in Ids, other \in Arguments :
       HeapCall("mul", operandsOf(self, other), mulH(heap, self, other))

HeapDiv ==
  /\ HeapRunning
  /\ \E self \in Ids, other \in Arguments :
       /\ argValue(heap, other).magnitude # Zero
       /\ HeapCall("div", operandsOf(self, other), divH(heap, self, other))

HeapInv ==
  /\ HeapRunning
  /\ \E self \in Ids :
       /\ heap.objs[self].magnitude # Zero
       /\ HeapCall("inv", {self}, invH(heap, self))

HeapPow ==
  /\ HeapRunning
  /\ \E self \in Ids, n \in {Whole(-1), Whole(0), Whole(2), Num(1, 2)} :
       /\ Less(n, Zero) => heap.objs[self].magnitude # Zero
       /\ HeapCall("pow", {self}, powH(heap, self, n))

HeapRoot ==
  /\ HeapRunning
  /\ \E self \in Ids, n \in {Whole(0), Whole(1), Whole(2)} :
       /\ n[1] >= 1 => HasRoot(MathAbs(heap.objs[self].magnitude), n[1])
       /\ HeapCall("root", {self}, rootH(heap, self, n))

HeapCompare ==
  /\ HeapRunning
  /\ \E self \in Ids, other \in Arguments :
       \/ HeapCall("compare", operandsOf(self, other),
            readH(heap, compare(deref(heap, self), argValue(heap, other),
                                undefined)))
       \/ HeapCall("eq", operandsOf(self, other),
            readH(heap, eq(deref(heap, self), argValue(heap, other),
                           undefined)))
       \/ HeapCall("lt", operandsOf(self, other),
            readH(heap, lt(deref(heap, self), argValue(heap, other),
                           undefined)))
       \/ HeapCall("lte", operandsOf(self, other),
            readH(heap, lte(deref(heap, self), argValue(heap, other),
                            undefined)))
       \/ HeapCall("gt", operandsOf(self, other),
            readH(heap, gt(deref(heap, self), argValue(heap, other),
                           undefined)))
       \/ HeapCall("gte", operandsOf(self, other),
            readH(heap, gte(deref(heap, self), argValue(heap, other),
                            undefined)))

HeapIn ==
  /\ HeapRunning
  /\ \E self \in Ids, unitString \in {"m", "[k]m", "K"} :
       HeapCall("in", {self}, readH(heap, in(units, deref(heap, self),
                                             unitString)))

HeapWith ==
  /\ HeapRunning
  /\ \E self \in Ids, unitList \in {<<"m", "s">>, <<"K">>} :
       HeapCall("with", {self}, readH(heap, with(units, deref(heap, self),
                                                 unitList)))

NextHeap ==
  \/ HeapQuantity
  \/ HeapAdd
  \/ HeapSub
  \/ HeapMul
  \/ HeapDiv
  \/ HeapInv
  \/ HeapPow
  \/ HeapRoot
  \/ HeapCompare
  \/ HeapIn
  \/ HeapWith

SpecHeap == Init /\ [][NextHeap]_vars

\* The methods that return a Quantity.
ReturnsQuantity ==
  {"add", "sub", "mul", "div", "inv", "pow", "root"}

\* C11: every operation on quantities (add, sub, mul, div, inv, pow, root,
\* compare and its wrappers, in, with) leaves the magnitude, the dimension
\* vector and the offset of its receiver and of its argument as they were
\* before the call, and the quantity it returns does not share its dimension
\* array with either operand; so no object that existed before a call is
\* changed by it, whichever object the call is made on.
C11_atomicity ==
  ret.op \notin {"none", "quantity"} =>
    /\ \A id \in ret.operands :
         /\ heap.objs[id] = ret.before.objs[id]
         /\ deref(heap, id) = deref(ret.before, id)
    /\ ret.op \in ReturnsQuantity /\ ret.out.ok =>
         \A id \in ret.operands :
           heap.objs[ret.out.val].dimensions # heap.objs[id].dimensions
    /\ \A id \in DOMAIN ret.before.objs :
         deref(heap, id) = deref(ret.before, id)

\* inv() has returned on the result of an earlier operation, with every
\* exponent negated in the result and not in the receiver.
C11_witness ==
  /\ ret.op = "inv"
  /\ ret.out.ok
  /\ ret.operands = {2}
  /\ deref(heap, 2).dimensions # ZeroDimensions
  /\ deref(heap, ret.out.val).dimensions # deref(heap, 2).dimensions
  /\ deref(heap, 2) = deref(ret.before, 2)

----------------------------------------------------------------------------
(* Properties of define(), checked under SpecDefine *)

\* C12: define(sym, M, u, offset) takes the zero offset in the new unit's own
\* scale and stores it scaled to the coherent reference frame: the stored
\* offset is offset * (scale of the new unit in coherent units), and
\* quantity(0, sym) has the effective coherent value offset * scale.
C12_defineOffset ==
  (/\ ret.op = "define"
   /\ ret.out.ok
   /\ typeof(ret.offset) = "number"
   /\ ret.offset.num # Zero) =>
    /\ units[ret.symbol].offset =
         Times(ret.offset.num, units[ret.symbol].magnitude)
    /\ LET zero == quantity(units, Zero, ret.symbol)
       IN  /\ zero.ok
           /\ Plus(zero.val.magnitude, zero.val.offset) =
                Times(ret.offset.num, units[ret.symbol].magnitude)

\* C13: after a define(sym, M, u) that returns, with no offset argument, sym
\* resolves like a built-in unit: quantity(k, sym) equals quantity(k * M, u)
\* for every k; sym takes a prefix and a power and stands beside other terms
\* in a unit string; and a later define() may use sym in its unit string.
\* An omitted M is 1 and an omitted u is the dimensionless unit.
C13_definedUnit ==
  /\ (ret.op = "define" /\ ret.out.ok /\ typeof(ret.offset) = "undefined") =>
       LET M == IF typeof(ret.magnitude) = "undefined" THEN One
                ELSE ret.magnitude.num
           U == units[ret.symbol]
           scaled == Times(Whole(1000), U.magnitude)
           compound == quantity(units, One, "[k]" \o ret.symbol \o "^2 s")
       IN  /\ \A k \in Magnitudes :
                /\ quantity(units, k, ret.symbol).ok
                /\ quantity(units, k, ret.symbol) =
                     quantity(units, Times(k, M), ret.unitStr)
           /\ U.offset = Zero =>
                /\ compound.ok
                /\ compound.val.magnitude = Times(scaled, scaled)
                /\ \A ii \in DimIdx :
                     compound.val.dimensions[ii] =
                       Plus(Times(Whole(2), U.dimensions[ii]),
                            units["s"].dimensions[ii])
  /\ (/\ ret.op = "define"
      /\ ret.unitStr \in DOMAIN units \ DOMAIN BuiltinUnits
      /\ ret.unitStr # ret.symbol
      /\ ret.symbol \notin DOMAIN units) => ret.out.ok

\* define("bar", undefined, "foo") has returned after foo was defined as 2 of
\* a unit, and bar is kept with that scale.
C13_witness ==
  /\ ret.op = "define"
  /\ ret.out.ok
  /\ typeof(ret.magnitude) = "undefined"
  /\ typeof(ret.offset) = "undefined"
  /\ ret.unitStr \in DOMAIN units \ DOMAIN BuiltinUnits
  /\ units[ret.symbol].magnitude = Whole(2)
  /\ units[ret.symbol] = units[ret.unitStr]

----------------------------------------------------------------------------
(* Powers.                                                                 *)

\* The magnitude raised to the powers tried, by repeated multiplication.
Raised(magnitude, n) ==
  IF n = Whole(1) THEN magnitude
  ELSE IF n = Whole(2) THEN Times(magnitude, magnitude)
  ELSE IF n = Whole(-1) THEN Over(One, magnitude)
  ELSE MathPow(magnitude, n[1])

C15_powOfOffset ==
  /\ ret.op = "pow" /\ ret.self.offset # Zero /\ isInteger(ret.n)
       => ~ret.out.ok
  /\ ret.op \in {"mul", "div", "inv", "pow", "root"} /\ ret.out.ok
       /\ ret.out.val.offset # Zero
       => ret.out.val.dimensions = ret.self.dimensions

----------------------------------------------------------------------------
(* Inverse and division.                                                   *)

\* Two outcomes are the same: both throw, or both return the same value.
SameOutcome(a, b) ==
  /\ a.ok = b.ok
  /\ a.ok => a.val = b.val

\* a.mul(b.inv()), given b.inv().
mulByInverse(a, inverse) == IF inverse.ok THEN mul(a, inverse.val) ELSE inverse

\* C16: q.inv() throws exactly when q has an offset, and otherwise returns the
\* reciprocal magnitude with every exponent negated and offset 0; a.div(b)
\* has the outcome of a.mul(b.inv()), b a quantity or a number: the same
\* result, or a throw in the same cases.
C16_invDiv ==
  /\ ret.op = "inv" =>
       /\ ret.out.ok <=> ret.self.offset = Zero
       /\ ret.out.ok =>
            /\ Times(ret.out.val.magnitude, ret.self.magnitude) = One
            /\ \A ii \in DimIdx :
                 Plus(ret.out.val.dimensions[ii], ret.self.dimensions[ii]) = Zero
            /\ ret.out.val.offset = Zero
  /\ ret.op = "div" =>
       SameOutcome(ret.out, mulByInverse(ret.self, inv(Coerce(ret.other))))

\* A division of a quantity with dimensions by another one, which returns.
C16_witness ==
  /\ ret.op = "div"
  /\ Held(ret.other)
  /\ dimensionality(ret.other) # Zero
  /\ ret.out.ok
  /\ ret.out.val.dimensions # ret.self.dimensions

----------------------------------------------------------------------------
(* Roots.                                                                  *)

\* C17: q.root(n) throws when n is not an integer >= 1, when q has an offset
\* and n > 1, and when the magnitude of q is negative; a root that returns
\* has the n-th root of the magnitude and every exponent divided by n.
C17_root ==
  ret.op = "root" =>
    /\ ~isInteger(ret.n) \/ Less(ret.n, One) => ~ret.out.ok
    /\ ret.self.offset # Zero /\ Less(One, ret.n) => ~ret.out.ok
    /\ Less(ret.self.magnitude, Zero) => ~ret.out.ok
    /\ ret.out.ok =>
         /\ ~Less(ret.out.val.magnitude, Zero)
         /\ MathPow(ret.out.val.magnitude, ret.n[1]) = ret.self.magnitude
         /\ \A ii \in DimIdx :
              Times(ret.out.val.dimensions[ii], ret.n) = ret.self.dimensions[ii]

\* The square root of an area.
C17_witness ==
  /\ ret.op = "root"
  /\ ret.n = Whole(2)
  /\ ret.self.dimensions[2] = Whole(2)
  /\ ret.self.magnitude # Zero
  /\ ret.out.ok
  /\ ret.out.val.dimensions[2] = One

----------------------------------------------------------------------------
(* Round trips: a program that makes one quantity and then chains pow,     *)
(* root, add and sub, each call on the result of the one before.           *)

\* The number of calls of the program.
MaxChain == 3

ChainMagnitudes == {Whole(-1), Zero, Whole(2)}

ChainUnitStrings == {"", "m", "m^2", "degC", "K"}

ChainOperands ==
  Parsed({Whole(2)}, {"m", "K", "degC"}) \cup {Number(Whole(2))}

Chaining == calls < MaxChain

\* The call before, without the one before it.
Last(r) ==
  IF r.op \in {"none", "quantity"} THEN [op |-> r.op]
  ELSE [op |-> r.op, self |-> r.self, arg |-> r.arg, out |-> r.out]

\* A call on x whose result, when it returns, the program keeps in x; the
\* program makes the calls whose results are within the components tried.
Chain(op, arg, out) ==
  /\ out.ok => Fits(out.val)
  /\ calls' = calls + 1
  /\ ret' = [op |-> op, self |-> x, arg |-> arg, out |-> out, prev |-> Last(ret)]
  /\ x' = IF out.ok THEN out.val ELSE x
  /\ UNCHANGED <<units, heap>>

ChainQuantity ==
  /\ calls = 0
  /\ \E magnitude \in ChainMagnitudes, unitString \in ChainUnitStrings :
       Chain("quantity", unitString, quantity(units, magnitude, unitString))

ChainPow ==
  /\ Chaining
  /\ Held(x)
  /\ \E n \in Powers :
       /\ Less(n, Zero) => x.magnitude # Zero
       /\ Chain("pow", n, pow(x, n))

ChainRoot ==
  /\ Chaining
  /\ Held(x)
  /\ \E n \in Powers :
       /\ (isInteger(n) /\ n[1] >= 1) => HasRoot(MathAbs(x.magnitude), n[1])
       /\ Chain("root", n, root(x, n))

ChainAdd ==
  /\ Chaining
  /\ Held(x)
  /\ \E other \in ChainOperands : Chain("add", other, add(x, other))

ChainSub ==
  /\ Chaining
  /\ Held(x)
  /\ \E other \in ChainOperands : Chain("sub", other, sub(x, other))

NextChain ==
  \/ ChainQuantity
  \/ ChainPow
  \/ ChainRoot
  \/ ChainAdd
  \/ ChainSub

SpecChain == Init /\ [][NextChain]_vars

\* q.pow(n) returned and the call after it is root(n) on what it returned.
RootOfPow ==
  /\ ret.op = "root"
  /\ ret.prev.op = "pow"
  /\ ret.prev.out.ok
  /\ ret.arg = ret.prev.arg

\* C18 as stated: for every quantity q with a non-negative magnitude and
\* every nonzero integer n, q.pow(n).root(n) returns and equals q.
C18_powRoot ==
  /\ ret.op = "pow" /\ isInteger(ret.arg) /\ ret.arg # Zero
       /\ ~Less(ret.self.magnitude, Zero)
       => ret.out.ok
  /\ RootOfPow /\ isInteger(ret.arg) /\ ret.arg # Zero
       /\ ~Less(ret.prev.self.magnitude, Zero)
       => /\ ret.out.ok
          /\ ret.out.val.dimensions = ret.prev.self.dimensions
          /\ ret.out.val.magnitude = ret.prev.self.magnitude

\* C18, amended: for every quantity q with a non-negative magnitude and
\* every integer n >= 1, with n = 1 when q has an offset, q.pow(n).root(n)
\* returns a quantity equal to q, and q.eq of it is true; for a negative n,
\* root(n) throws on what q.pow(n) returned.
C18_powRootPositive ==
  /\ ret.op = "pow" /\ isInteger(ret.arg) /\ ~Less(ret.arg, One)
       /\ (ret.self.offset = Zero \/ ret.arg = One)
       => ret.out.ok
  /\ RootOfPow /\ isInteger(ret.arg) /\ ~Less(ret.arg, One)
       /\ ~Less(ret.prev.self.magnitude, Zero)
       => /\ ret.out = Return(ret.prev.self)
          /\ eq(ret.prev.self, ret.out.val, undefined) = Return(TRUE)
  /\ RootOfPow /\ Less(ret.arg, Zero) => ~ret.out.ok

\* The square root of the square of a length of 2.
C18_witness ==
  /\ RootOfPow
  /\ ret.arg = Whole(2)
  /\ ret.prev.self.magnitude = Whole(2)
  /\ dimensionality(ret.prev.self) # Zero
  /\ ret.out.ok

\* a.add(b) returned and the call after it is sub(b) on what it returned.
SubOfAdd ==
  /\ ret.op = "sub"
  /\ ret.prev.op = "add"
  /\ ret.prev.out.ok
  /\ ret.arg = ret.prev.arg

\* C19: for quantities a and b with the same dimension vector, b without an
\* offset and a with or without one, a.add(b) returns and a.add(b).sub(b)
\* returns a quantity with the dimension vector, offset and magnitude of a,
\* for which a.eq is true.
C19_addSub ==
  /\ ret.op = "add" /\ sameDimensions(ret.self, Coerce(ret.arg))
       /\ Coerce(ret.arg).offset = Zero
       => ret.out.ok
  /\ SubOfAdd =>
       /\ ret.out.ok
       /\ ret.out.val.dimensions = ret.prev.self.dimensions
       /\ ret.out.val.offset = ret.prev.self.offset
       /\ ret.out.val.magnitude = ret.prev.self.magnitude
       /\ eq(ret.prev.self, ret.out.val, undefined) = Return(TRUE)

\* A temperature difference added to a Celsius temperature and subtracted
\* again.
C19_witness ==
  /\ SubOfAdd
  /\ Held(ret.arg)
  /\ ret.prev.self.offset # Zero
  /\ ret.out.ok
  /\ ret.out.val.offset # Zero

----------------------------------------------------------------------------
(* Comparison errors.                                                      *)

\* compare and its five wrappers all threw on the last call.
AllThrow ==
  /\ ~ret.out.ok
  /\ ~ret.eq.ok
  /\ ~ret.lt.ok
  /\ ~ret.lte.ok
  /\ ~ret.gt.ok
  /\ ~ret.gte.ok

\* compare and its five wrappers all returned on the last call.
AllReturn ==
  /\ ret.out.ok
  /\ ret.eq.ok
  /\ ret.lt.ok
  /\ ret.lte.ok
  /\ ret.gt.ok
  /\ ret.gte.ok

\* C20: compare, eq, lt, lte, gt and gte throw when the two quantities have
\* different dimension vectors, when a quantity given as tolerance has a
\* dimension vector other than the receiver's or has an offset, and when a
\* nonzero number is given as tolerance while the receiver has an offset;
\* on a receiver with an offset they accept no tolerance and the number 0.
C20_compareErrors ==
  ret.op = "compare" =>
    /\ ~sameDimensions(ret.self, Coerce(ret.other)) => AllThrow
    /\ Held(ret.tolerance) /\ ~sameDimensions(ret.self, ret.tolerance)
         => AllThrow
    /\ Held(ret.tolerance) /\ ret.tolerance.offset # Zero => AllThrow
    /\ typeof(ret.tolerance) = "number" /\ ret.tolerance.num # Zero
         /\ ret.self.offset # Zero
         => AllThrow
    /\ ret.self.offset # Zero /\ sameDimensions(ret.self, Coerce(ret.other))
         /\ (typeof(ret.tolerance) = "undefined" \/ ret.tolerance = Number(Zero))
         => AllReturn

\* A fraction given as tolerance to a comparison of two temperatures, the
\* receiver in degC.
C20_witness ==
  /\ ret.op = "compare"
  /\ ret.self.offset # Zero
  /\ sameDimensions(ret.self, Coerce(ret.other))
  /\ typeof(ret.tolerance) = "number"
  /\ ret.tolerance.num # Zero
  /\ AllThrow

----------------------------------------------------------------------------
(* Unit string syntax: a program that calls quantity() once, on a unit     *)
(* string written from terms: a bracketed prefix, a symbol and a power,    *)
(* in sections separated by "/".                                           *)

SyntaxPrefixes == {"", "k", "m", "GG"}

SyntaxSymbols == {"m", "s", "B", "bugs", "", "km", "ms", "KiB"}

SyntaxPowers == {"", "2", "-1", "0", "1.5", "2x", "d", "+2", "-2"}

term(prefix, sym, power) == [prefix |-> prefix, sym |-> sym, power |-> power]

\* The text of a term: "[prefix]sym^power", brackets and caret only when the
\* part is there.
termText(t) ==
  (IF t.prefix # "" THEN "[" \o t.prefix \o "]" ELSE "")
  \o t.sym
  \o (IF t.power # "" THEN "^" \o t.power ELSE "")

RECURSIVE termsText(_)
termsText(terms) ==
  IF Len(terms) = 0 THEN ""
  ELSE IF Len(terms) = 1 THEN termText(terms[1])
  ELSE termText(terms[1]) \o " " \o termsText(Tail(terms))

RECURSIVE sectionsText(_)
sectionsText(sections) ==
  IF Len(sections) = 0 THEN ""
  ELSE IF Len(sections) = 1 THEN termsText(sections[1])
  ELSE termsText(sections[1]) \o " / " \o sectionsText(Tail(sections))

\* The terms a quotient is written from: none has an offset.
QuotientTerms ==
  {term("", "g", ""), term("", "m", "2"), term("", "s", "3"),
   term("d", "m", ""), term("", "s", "-1")}

\* The lists of one or two such terms.
TermLists ==
  {<<t>> : t \in QuotientTerms}
  \cup {<<t, u>> : t \in QuotientTerms, u \in QuotientTerms}

\* quantity(magnitude, unitString) on the text of the sections.
SyntaxCall(magnitude, sections, unitString) ==
  Call([op |-> "quantity", magnitude |-> magnitude, sections |-> sections,
        unitString |-> unitString,
        out |-> quantity(units, magnitude, unitString)], TRUE)

\* The program has not called quantity() yet.
Unparsed == calls = 0

\* A unit string of one term.
TermQuantity ==
  /\ Unparsed
  /\ \E magnitude \in {Whole(1), Whole(2)}, prefix \in SyntaxPrefixes,
        sym \in SyntaxSymbols, power \in SyntaxPowers :
       /\ termText(term(prefix, sym, power)) # ""
       /\ SyntaxCall(magnitude, <<<<term(prefix, sym, power)>>>>,
                     termText(term(prefix, sym, power)))

\* A unit string of terms in one section, or the empty unit string.
ProductQuantity ==
  /\ Unparsed
  /\ \E numerator \in TermLists \cup {<<>>} :
       SyntaxCall(Whole(2), <<numerator>>, termsText(numerator))

\* A unit string with one "/".
QuotientQuantity ==
  /\ Unparsed
  /\ \E numerator \in TermLists, denominator \in TermLists :
       SyntaxCall(Whole(2), <<numerator, denominator>>,
                  sectionsText(<<numerator, denominator>>))

\* A unit string with two "/".
DoubleQuotientQuantity ==
  /\ Unparsed
  /\ \E a \in QuotientTerms \cup {term("", "1", "")}, b \in QuotientTerms,
        c \in QuotientTerms :
       SyntaxCall(Whole(1), <<<<a>>, <<b>>, <<c>>>>,
                  sectionsText(<<<<a>>, <<b>>, <<c>>>>))

\* Symbols written with and without brackets around the prefix.
BareTerms ==
  {term("", "km", ""), term("", "ms", ""), term("k", "m", ""),
   term("m", "s", ""), term("", "min", ""), term("", "KiB", ""),
   term("Ki", "B", "")}

\* A unit string of one such term, or of one over another.
BareQuantity ==
  /\ Unparsed
  /\ \E sections \in {<<<<t>>>> : t \in BareTerms}
                     \cup {<<<<t>>, <<u>>>> : t \in BareTerms, u \in BareTerms} :
       SyntaxCall(Whole(1), sections, sectionsText(sections))

NextSyntax ==
  \/ BareQuantity
  \/ TermQuantity
  \/ ProductQuantity
  \/ QuotientQuantity
  \/ DoubleQuotientQuantity

SpecSyntax == Init /\ [][NextSyntax]_vars

\* The terms of all sections of the last unit string.
TermsOf(sections) ==
  UNION {{sections[si][ti] : ti \in DOMAIN sections[si]} :
           si \in DOMAIN sections}

\* The symbol is a registry unit after a prefix of k characters.
SplitsAt(sym, k) ==
  /\ Len(sym) > k
  /\ SubSeq(sym, 1, k) \in DOMAIN prefixes
  /\ SubSeq(sym, k + 1, Len(sym)) \in DOMAIN units

\* The symbol names a registry unit, alone or after a prefix of one or two
\* characters.
Resolves(sym) == sym \in DOMAIN units \/ SplitsAt(sym, 1) \/ SplitsAt(sym, 2)

\* C21: quantity(m, s) throws when s has more than one "/", when a term has
\* an empty unit symbol, when a term's symbol does not name a registry unit,
\* and when a bracketed prefix is not a known prefix; then no quantity is
\* returned.
C21_parseErrors ==
  (/\ ret.op = "quantity"
   /\ \/ Len(ret.sections) > 2
      \/ \E t \in TermsOf(ret.sections) :
           \/ t.sym = ""
           \/ ~Resolves(t.sym)
           \/ t.prefix # "" /\ t.prefix \notin DOMAIN prefixes)
  => ~ret.out.ok /\ ~Held(x)

\* A known unit with an unknown prefix in brackets.
C21_witness ==
  /\ ret.op = "quantity"
  /\ \E t \in TermsOf(ret.sections) :
       /\ t.prefix = "GG"
       /\ t.sym = "m"
       /\ t.power = ""
  /\ ~ret.out.ok

\* The term with its power negated; a term without a power has power 1.
negated(t) ==
  term(t.prefix, t.sym,
       intToString(-(IF t.power = "" THEN 1 ELSE parseInt(t.power)[1])))

negatedTerms(terms) == [ti \in DOMAIN terms |-> negated(terms[ti])]

\* The power of a term as a number.
powerOf(t) == IF t.power = "" THEN One ELSE parseInt(t.power)

\* The scale of a term: prefix times the scale of the unit, raised to the
\* power.
scaleOf(t) ==
  MathPow(Times(IF t.prefix = "" THEN One ELSE prefixes[t.prefix],
                units[t.sym].magnitude),
          powerOf(t)[1])

RECURSIVE scaleProduct(_)
scaleProduct(terms) ==
  IF Len(terms) = 0 THEN One
  ELSE Times(scaleOf(terms[1]), scaleProduct(Tail(terms)))

\* The sum over the terms of power times the ii-th exponent of the unit.
RECURSIVE exponentSum(_, _)
exponentSum(terms, ii) ==
  IF Len(terms) = 0 THEN Zero
  ELSE Plus(Times(powerOf(terms[1]), units[terms[1].sym].dimensions[ii]),
            exponentSum(Tail(terms), ii))

\* The last call was quantity() on a quotient of two lists of terms, each a
\* registry unit with or without a bracketed prefix and a power.
Quotient ==
  /\ ret.op = "quantity"
  /\ Len(ret.sections) = 2
  /\ \A t \in TermsOf(ret.sections) : t.sym \in DOMAIN units

\* C22: the terms after the "/" are inverted: quantity(m, "A / B") returns
\* what quantity(m, A followed by B with every power negated) returns; its
\* exponents are the sum of power times exponent over A minus that sum over
\* B, and its magnitude is m times the scales of A over the scales of B.
C22_quotient ==
  Quotient =>
    /\ ret.out.ok
    /\ ret.out = quantity(units, ret.magnitude,
                          termsText(ret.sections[1]
                                    \o negatedTerms(ret.sections[2])))
    /\ \A ii \in DimIdx :
         ret.out.val.dimensions[ii] =
           Minus(exponentSum(ret.sections[1], ii),
                 exponentSum(ret.sections[2], ii))
    /\ ret.out.val.magnitude =
         Over(Times(ret.magnitude, scaleProduct(ret.sections[1])),
              scaleProduct(ret.sections[2]))
    /\ ret.out.val.offset = Zero

\* "g m^2 / s^3"
C22_witness ==
  /\ Quotient
  /\ ret.unitString = "g m^2 / s^3"
  /\ ret.out.ok
  /\ ret.out.val.dimensions[3] = Whole(-3)

\* The text is a run of decimal digits from the ii-th character on.
RECURSIVE allDigits(_, _)
allDigits(str, ii) ==
  IF ii > Len(str) THEN TRUE
  ELSE charAt(str, ii) \in DOMAIN digitValue /\ allDigits(str, ii + 1)

\* The text is a signed integer: an optional sign, then digits only.
IsSignedInteger(str) ==
  IF Len(str) > 0 /\ charAt(str, 1) \in {"+", "-"}
    THEN Len(str) > 1 /\ allDigits(str, 2)
  ELSE Len(str) > 0 /\ allDigits(str, 1)

\* The last call was quantity() on one term with a power, whose prefix and
\* symbol are known.
PoweredTerm ==
  /\ ret.op = "quantity"
  /\ Len(ret.sections) = 1
  /\ Len(ret.sections[1]) = 1
  /\ ret.sections[1][1].power # ""
  /\ ret.sections[1][1].sym \in DOMAIN units
  /\ ret.sections[1][1].prefix \in DOMAIN prefixes \cup {""}

\* C23: the power of a term is accepted exactly when its text is a signed
\* integer: then the unit is raised to it, and for every other text
\* quantity() throws.
C23_power ==
  PoweredTerm =>
    /\ ret.out.ok <=> IsSignedInteger(ret.sections[1][1].power)
    /\ ret.out.ok =>
         /\ ret.out.val.magnitude =
              Times(ret.magnitude, scaleOf(ret.sections[1][1]))
         /\ \A ii \in DimIdx :
              ret.out.val.dimensions[ii] = exponentSum(ret.sections[1], ii)

\* The term with the prefix of its symbol in brackets: the symbol itself
\* when it is a registry unit, else its split after one character, else
\* after two.
explicit(t) ==
  IF t.prefix # "" \/ t.sym \in DOMAIN units THEN t
  ELSE IF SplitsAt(t.sym, 1)
    THEN term(SubSeq(t.sym, 1, 1), SubSeq(t.sym, 2, Len(t.sym)), t.power)
  ELSE IF SplitsAt(t.sym, 2)
    THEN term(SubSeq(t.sym, 1, 2), SubSeq(t.sym, 3, Len(t.sym)), t.power)
  ELSE t

explicitSections(sections) ==
  [si \in DOMAIN sections |->
     [ti \in DOMAIN sections[si] |-> explicit(sections[si][ti])]]

\* C24: a term without brackets is a registry unit when its symbol is one;
\* otherwise it is a prefix of one character and a unit, otherwise a prefix
\* of two characters and a unit: quantity() returns for it what it returns
\* with the prefix in brackets, so "km / ms" is "[k]m / [m]s", "KiB" is
\* "[Ki]B", and "min" is the minute.
C24_barePrefix ==
  (/\ ret.op = "quantity"
   /\ Len(ret.sections) <= 2
   /\ \A t \in TermsOf(ret.sections) : Resolves(t.sym) /\ t.power = "")
  => /\ ret.out.ok
     /\ ret.out = quantity(units, ret.magnitude,
                           sectionsText(explicitSections(ret.sections)))
     /\ ret.unitString = "min" => ret.out.val.magnitude = Whole(60)

----------------------------------------------------------------------------
(* Conversions to a unit of the quantity's own dimensions.                 *)

\* The unit list of the last conversion.
listOf(r) ==
  IF r.op = "with" THEN r.unitList
  ELSE IF r.op = "inSI" THEN listSI
  ELSE listCGS

Converted == ret.op \in {"with", "inSI", "inCGS"}

\* The indexes of the units of the list whose dimension vector is that of q
\* (sign = 1) or its negation (sign = -1).
Alike(unitList, q, sign) ==
  {k \in 1..Len(unitList) :
     /\ getUnitQuantity(units, unitList[k]).ok
     /\ \A ii \in DimIdx :
          getUnitQuantity(units, unitList[k]).val.dimensions[ii]
            = Times(Whole(sign), q.dimensions[ii])}

Least(S) == CHOOSE k \in S : \A j \in S : k <= j

\* C25 as stated: when a unit of the list has exactly the dimension vector
\* of q, q.with(list) returns that unit alone, with power 1 and no "/", and
\* the magnitude q.in(that unit).
C25_exactUnit ==
  Converted /\ Alike(listOf(ret), ret.self, 1) # {} =>
    /\ ret.out.ok
    /\ \E k \in Alike(listOf(ret), ret.self, 1) :
         ret.out.val[2] = listOf(ret)[k]
    /\ in(units, ret.self, ret.out.val[2]) = Return(ret.out.val[1])

\* The first unit of the list with the dimension vector of q or its negation.
FirstAlike ==
  Least(Alike(listOf(ret), ret.self, 1) \cup Alike(listOf(ret), ret.self, -1))

\* C25, amended: when q has dimensions and some unit of the list has the
\* dimension vector of q or its negation, q.with(list) uses the first such
\* unit of the list only: alone with power 1 when its vector is that of q,
\* as "1 / unit" when it is the negation, with the magnitude q.in(that
\* string); in the second case with() throws when the unit has an offset.
C25_firstAlikeUnit ==
  (/\ Converted
   /\ dimensionality(ret.self) # Zero
   /\ Alike(listOf(ret), ret.self, 1) \cup Alike(listOf(ret), ret.self, -1) # {})
  => IF FirstAlike \in Alike(listOf(ret), ret.self, 1)
       THEN /\ ret.out.ok
            /\ ret.out.val[2] = listOf(ret)[FirstAlike]
            /\ in(units, ret.self, ret.out.val[2]) = Return(ret.out.val[1])
     ELSE IF getUnitQuantity(units, listOf(ret)[FirstAlike]).val.offset # Zero
       THEN ~ret.out.ok
     ELSE /\ ret.out.ok
          /\ ret.out.val[2] = "1 / " \o listOf(ret)[FirstAlike]
          /\ in(units, ret.self, ret.out.val[2]) = Return(ret.out.val[1])

\* A force in newtons, by inCGS(): "dyn" with 100000 times the magnitude.
C25_witness ==
  /\ ret.op = "inCGS"
  /\ ret.self.dimensions = units["N"].dimensions
  /\ ret.out.ok
  /\ ret.out.val[2] = "dyn"
  /\ ret.out.val[1] = Times(Whole(100000), ret.self.magnitude)

----------------------------------------------------------------------------
(* The unit string of a conversion.                                        *)

\* The units of the list chosen with a power of the given sign, in the order
\* they were chosen, each as "unit" or "unit^k" with k the absolute power.
RECURSIVE rendered(_, _, _, _)
rendered(unitList, chosen, ii, sign) ==
  IF ii > Len(chosen.useUnits) THEN <<>>
  ELSE (IF chosen.useUnitsPower[ii] * sign > 0
          THEN <<unitList[chosen.useUnits[ii]]
                 \o (IF chosen.useUnitsPower[ii] * sign > 1
                       THEN "^" \o intToString(chosen.useUnitsPower[ii] * sign)
                     ELSE "")>>
        ELSE <<>>)
       \o rendered(unitList, chosen, ii + 1, sign)

RECURSIVE spaced(_)
spaced(words) ==
  IF Len(words) = 0 THEN ""
  ELSE IF Len(words) = 1 THEN words[1]
  ELSE words[1] \o " " \o spaced(Tail(words))

\* Numerator, "/" and denominator; "1" for an empty numerator.
quotientText(numerator, denominator) ==
  IF Len(denominator) = 0
    THEN (IF Len(numerator) = 0 THEN "1" ELSE spaced(numerator))
  ELSE (IF Len(numerator) = 0 THEN "1" ELSE spaced(numerator))
       \o " / " \o spaced(denominator)

\* The unit string of the chosen units of the last conversion.
renderedUnits(unitList, chosen) ==
  quotientText(rendered(unitList, chosen, 1, 1),
               rendered(unitList, chosen, 1, -1))

\* C26: the unit string with() returns lists the chosen units of positive
\* power before the "/" and those of negative power after it with the sign
\* dropped, "^k" written only for an absolute power k > 1; without a unit
\* before the "/" it starts with "1", and it is "1" without any unit.
C26_unitString ==
  Converted /\ ret.out.ok =>
    ret.out.val[2] =
      renderedUnits(listOf(ret),
                    chosenUnits(units, ret.self, listOf(ret)).val)

\* The inverse of a force, with newtons and metres: "1 / N".
C26_witness ==
  /\ ret.op = "with"
  /\ ret.out.ok
  /\ ret.out.val[2] = "1 / N"

----------------------------------------------------------------------------
(* Arrays as magnitudes: a program that makes a quantity from a number or  *)
(* an array and combines it with a second one.                             *)

\* A JavaScript array of numbers passed as magnitude.
Array(elements) == [arr |-> elements]

isArray(v) == "arr" \in DOMAIN v

\* What the operator *= makes of its right operand: an array is converted
\* through its string, so [] is 0, [k] is k and a longer array is NaN.
toNumber(v) ==
  IF ~isArray(v) THEN v.num
  ELSE IF Len(v.arr) = 0 THEN Zero
  ELSE IF Len(v.arr) = 1 THEN v.arr[1]
  ELSE NaN

\* An outcome whose magnitude is NaN.
asNaN(r) == IF r.ok THEN Return([r.val EXCEPT !.magnitude = NaN]) ELSE r

\* The quantity with magnitude 1 in place of NaN.
sound(q) == IF q.magnitude = NaN THEN [q EXCEPT !.magnitude = One] ELSE q

\* quantity(magnitude, unitString) for a magnitude that may be an array:
\* returnQuantity.magnitude *= magnitude gives a number, NaN included.
arrayQuantity(magnitude, unitString) ==
  IF toNumber(magnitude) = NaN THEN asNaN(quantity(units, One, unitString))
  ELSE quantity(units, toNumber(magnitude), unitString)

\* add, sub, mul and div on magnitudes that may be NaN: the tests of
\* dimensions and offsets do not read the magnitude, and +, -, * and / give
\* NaN when an operand is NaN.
arithmetic(q, other, outcome) ==
  IF q.magnitude = NaN \/ other.magnitude = NaN THEN asNaN(outcome)
  ELSE outcome

addJs(q, other) == arithmetic(q, other, add(sound(q), sound(other)))
subJs(q, other) == arithmetic(q, other, sub(sound(q), sound(other)))
mulJs(q, other) == arithmetic(q, other, mul(sound(q), sound(other)))
divJs(q, other) == arithmetic(q, other, div(sound(q), sound(other)))

\* compare on magnitudes that may be NaN: < and > are false on NaN, so the
\* result is 0.
compareJs(q, other) ==
  IF q.magnitude = NaN \/ other.magnitude = NaN
    THEN (IF compare(sound(q), sound(other), undefined).ok THEN Return(0)
          ELSE compare(sound(q), sound(other), undefined))
  ELSE compare(q, other, undefined)

ArrayMagnitudes ==
  {Number(Whole(2)), Array(<<Whole(1)>>), Array(<<Whole(1), Whole(2)>>),
   Array(<<Whole(1), Whole(2), Whole(2)>>)}

ArrayUnitStrings == {"m", "m^2"}

\* a = quantity(magnitude, unitString)
ArrayQuantity ==
  /\ calls = 0
  /\ \E magnitude \in ArrayMagnitudes, unitString \in ArrayUnitStrings :
       Call([op |-> "quantity", magnitude |-> magnitude,
             unitString |-> unitString,
             out |-> arrayQuantity(magnitude, unitString)], TRUE)

\* a was just made.
Made == calls = 1 /\ Held(x) /\ ret.op = "quantity"

\* a.op(b), where b was made from otherMagnitude.
ArrayCall(op, otherMagnitude, other, out) ==
  Call([op |-> op, self |-> x, selfMagnitude |-> ret.magnitude,
        other |-> other, otherMagnitude |-> otherMagnitude, out |-> out],
       FALSE)

addOf(otherMagnitude, other) ==
  ArrayCall("add", otherMagnitude, other, addJs(x, other))

subOf(otherMagnitude, other) ==
  ArrayCall("sub", otherMagnitude, other, subJs(x, other))

mulOf(otherMagnitude, other) ==
  ArrayCall("mul", otherMagnitude, other, mulJs(x, other))

divOf(otherMagnitude, other) ==
  ArrayCall("div", otherMagnitude, other, divJs(x, other))

compareOf(otherMagnitude, other) ==
  ArrayCall("compare", otherMagnitude, other, compareJs(x, other))

\* a.add(quantity(magnitude, unitString))
ArrayAdd ==
  /\ Made
  /\ \E magnitude \in ArrayMagnitudes, unitString \in ArrayUnitStrings :
       addOf(magnitude, arrayQuantity(magnitude, unitString).val)

ArraySub ==
  /\ Made
  /\ \E magnitude \in ArrayMagnitudes, unitString \in ArrayUnitStrings :
       subOf(magnitude, arrayQuantity(magnitude, unitString).val)

ArrayMul ==
  /\ Made
  /\ \E magnitude \in ArrayMagnitudes, unitString \in ArrayUnitStrings :
       mulOf(magnitude, arrayQuantity(magnitude, unitString).val)

ArrayDiv ==
  /\ Made
  /\ \E magnitude \in ArrayMagnitudes, unitString \in ArrayUnitStrings :
       divOf(magnitude, arrayQuantity(magnitude, unitString).val)

ArrayCompare ==
  /\ Made
  /\ \E magnitude \in ArrayMagnitudes, unitString \in ArrayUnitStrings :
       compareOf(magnitude, arrayQuantity(magnitude, unitString).val)

NextArray ==
  \/ ArrayQuantity
  \/ ArrayAdd
  \/ ArraySub
  \/ ArrayMul
  \/ ArrayDiv
  \/ ArrayCompare

SpecArray == Init /\ [][NextArray]_vars

\* The number of elements of a magnitude as given: 0 for a plain number.
lengthOf(v) == IF isArray(v) THEN Len(v.arr) ELSE 0

\* Two magnitudes combine: one is a number or has one element, or both have
\* the same length.
Broadcasts(a, b) ==
  \/ lengthOf(a) <= 1
  \/ lengthOf(b) <= 1
  \/ lengthOf(a) = lengthOf(b)

\* The value a binary operation returned: the magnitude of the quantity, a
\* number, or the number compare returned.
resultOf(r) == Number(IF r.op = "compare" THEN Whole(r.out.val)
                      ELSE r.out.val.magnitude)

\* C27: in add, sub, mul, div and compare, operands of equal length combine
\* element by element and a number or one-element array combines with every
\* element of the other operand; any other pair of lengths throws; a number
\* with an array of length K gives an array of length K, also for K = 1, and
\* two numbers never give an array.
C27_broadcast ==
  ret.op \in {"add", "sub", "mul", "div", "compare"} =>
    /\ ~Broadcasts(ret.selfMagnitude, ret.otherMagnitude) => ~ret.out.ok
    /\ ret.out.ok =>
         IF isArray(ret.selfMagnitude) \/ isArray(ret.otherMagnitude)
           THEN /\ isArray(resultOf(ret))
                /\ Len(resultOf(ret).arr) =
                     IF lengthOf(ret.selfMagnitude) > lengthOf(ret.otherMagnitude)
                       THEN lengthOf(ret.selfMagnitude)
                     ELSE lengthOf(ret.otherMagnitude)
         ELSE ~isArray(resultOf(ret))

----------------------------------------------------------------------------
(* The progress check of with().                                           *)

\* The largest absolute coefficient tried in a combination of units.
MaxCoefficient == 3

\* The sum over the units of the list, from the k-th on, of coefficient
\* times the ii-th exponent of the unit.
RECURSIVE combination(_, _, _, _)
combination(unitList, coefficients, k, ii) ==
  IF k > Len(unitList) THEN 0
  ELSE coefficients[k]
         * getUnitQuantity(units, unitList[k]).val.dimensions[ii][1]
       + combination(unitList, coefficients, k + 1, ii)

\* Some combination of the units of the list with integer coefficients (up
\* to MaxCoefficient in absolute value) has the dimension vector of q.
Spanned(unitList, q) ==
  \E coefficients \in
       [1..Len(unitList) -> (-MaxCoefficient)..MaxCoefficient] :
    \A ii \in DimIdx :
      Whole(combination(unitList, coefficients, 1, ii)) = q.dimensions[ii]

\* The progress check of the last with() threw.
NoProgress ==
  /\ ret.op = "with"
  /\ ~ret.chosen.ok
  /\ ret.chosen.err = "Cannot represent this quantity with the supplied units"

\* C28: q.with(U) throws 'Cannot represent this quantity with the supplied
\* units' when a pass finds no candidate that lowers the remainder, and only
\* when no combination of the units of U with integer coefficients has the
\* dimension vector of q.
C28_span ==
  /\ NoProgress => ~ret.out.ok /\ ~Spanned(ret.unitList, ret.self)
  /\ ret.op = "with" /\ ~ret.out.ok /\ ret.chosen.ok =>
       ret.out.err # "Cannot represent this quantity with the supplied units"

----------------------------------------------------------------------------
(* The while loop of with(), one pass at a time: a program that makes a    *)
(* quantity, may take its square root, and converts it with with().        *)

LoopLists ==
  {<<"m", "s">>, <<"N", "m", "s">>, <<"[k]g", "m", "s", "N">>, listSI}

LoopQuantity ==
  /\ calls = 0
  /\ \E unitString \in
          {unitStringFrom(exps, 1) : exps \in ExponentsFrom(1, MaxNorm)}
          \cup {"N", "J", "Gy"} :
       Call([op |-> "quantity", magnitude |-> One, unitString |-> unitString,
             out |-> quantity(units, One, unitString)], TRUE)

LoopRoot ==
  /\ calls = 1
  /\ Held(x)
  /\ Call([op |-> "root", self |-> x, n |-> Whole(2),
           out |-> root(x, Whole(2))], TRUE)

\* The state of with() before the first pass of its while loop: the
\* dimension arrays of the units, no unit chosen, the remainder of q.
entered(unitList, unitArray) ==
  [op |-> "with", pc |-> IF unitArray.ok THEN "while" ELSE "thrown",
   self |-> x, unitList |-> unitList,
   unitArray |-> IF unitArray.ok THEN unitArray.val ELSE <<>>,
   useUnits |-> <<>>, useUnitsPower |-> <<>>,
   remainder |-> dimensionality(x), remainderArray |-> x.dimensions,
   before |-> dimensionality(x), passes |-> 0, scanned |-> 0,
   out |-> Throw("not returned yet")]

LoopEnter ==
  /\ ret.op \in {"quantity", "root"}
  /\ Held(x)
  /\ \E unitList \in LoopLists :
       Call(entered(unitList, unitArrayOf(units, unitList, 1, Return(<<>>))),
            FALSE)

\* The end of one pass, with the best candidate of its scan: the throw of
\* the progress check, or the update of the chosen units and the remainder.
passed(best, existingIdx) ==
  IF ~Less(best.bestRemainder, ret.remainder)
    THEN [ret EXCEPT
            !.pc = "thrown",
            !.scanned = 2 * Len(ret.unitArray),
            !.out = Throw("Cannot represent this quantity with the supplied units")]
  ELSE [ret EXCEPT
          !.useUnits = IF existingIdx = -1 THEN Append(@, best.bestIdx) ELSE @,
          !.useUnitsPower =
             IF existingIdx = -1 THEN Append(@, best.bestInv)
             ELSE [@ EXCEPT ![existingIdx] = @ + best.bestInv],
          !.before = ret.remainder,
          !.remainder = best.bestRemainder,
          !.remainderArray = best.bestRemainderArray,
          !.scanned = 2 * Len(ret.unitArray),
          !.passes = @ + 1]

passedWith(best) == passed(best, indexOf(ret.useUnits, best.bestIdx))

\* One pass of the while loop.
LoopPass ==
  /\ ret.op = "with"
  /\ ret.pc = "while"
  /\ Less(Zero, ret.remainder)
  /\ Call(passedWith(scan(ret.unitArray, ret.remainderArray, ret.remainder)),
          FALSE)

\* After the loop: the unit string and the conversion.
LoopReturn ==
  /\ ret.op = "with"
  /\ ret.pc = "while"
  /\ ~Less(Zero, ret.remainder)
  /\ Call([ret EXCEPT
             !.pc = "returned",
             !.out = inFullUnits(units, ret.self,
                                 fullUnitsOf(ret.unitList, ret.useUnits,
                                             ret.useUnitsPower))],
          FALSE)

NextLoop ==
  \/ LoopQuantity
  \/ LoopRoot
  \/ LoopEnter
  \/ LoopPass
  \/ LoopReturn

SpecLoop == Init /\ [][NextLoop]_vars

\* The loop, pass by pass, ends as with() does.
LoopIsWith ==
  ret.op = "with" /\ ret.pc \in {"thrown", "returned"} =>
    ret.out = with(units, ret.self, ret.unitList)

\* C29: in every state of the while loop of q.with(U) the remainder is a
\* non-negative integer, it is strictly below the remainder before the last
\* completed pass, the number of completed passes is at most the sum of
\* |q.dims[i]|, and a pass scans 2 * |U| candidates.
Bounded ==
  /\ isInteger(ret.remainder)
  /\ ~Less(ret.remainder, Zero)
  /\ ret.passes > 0 => Less(ret.remainder, ret.before)
  /\ ~Less(dimensionality(ret.self), Whole(ret.passes))
  /\ ret.scanned \in {0, 2 * Len(ret.unitArray)}

C29_terminates == ret.op = "with" => Bounded

----------------------------------------------------------------------------
(* Equality within a fraction of the receiver.                             *)

\* The last call compared two quantities of like units and no offset with a
\* number t >= 0 as tolerance.
Fractional ==
  /\ ret.op = "compare"
  /\ typeof(ret.tolerance) = "number"
  /\ ~Less(ret.tolerance.num, Zero)
  /\ ret.self.offset = Zero
  /\ Coerce(ret.other).offset = Zero
  /\ sameDimensions(ret.self, Coerce(ret.other))

\* |b.magnitude - a.magnitude| <= t * |a.magnitude|
Within(a, b, t) ==
  ~Less(Times(t, MathAbs(a.magnitude)),
        MathAbs(Minus(b.magnitude, a.magnitude)))

\* C30: for a quantity q without offset, of any magnitude, and a number
\* t >= 0, q.compare(q, t) returns 0 and q.eq(q, t) is true; a.eq(b, t) is
\* true whenever |b.magnitude - a.magnitude| <= t * |a.magnitude|.
C30_reflexive ==
  Fractional /\ Within(ret.self, Coerce(ret.other), ret.tolerance.num) =>
    /\ ret.eq = Return(TRUE)
    /\ Coerce(ret.other) = ret.self => ret.out = Return(0)

=============================================================================
